---- MODULE Spec2Model ----
(***************************************************************************)
(* Model of the event pipeline and session core of src/main.py             *)
(* (class GmailMonitor): twitter_login, post_thread, monitor_inbox and     *)
(* monitor_followed_tweets, run by main() as two asyncio coroutines on one *)
(* event loop.  The code between two awaits runs atomically, so an action  *)
(* below is at most the code from one suspension point to the next.  The   *)
(* external services (mail, classifier and generator, platform) answer     *)
(* nondeterministically.                                                   *)
(***************************************************************************)
EXTENDS Integers, Sequences, FiniteSets, TLC

\* ------------------------------------------------------------------ bounds
MaxSegs == 4          \* longest list of tweets handed to post_thread alone
MaxPasses == 2        \* passes of the while loop of monitor_followed_tweets
NumMsgs == 2          \* messages that ever reach the inbox
MaxThreads == 1       \* threads the generator produces tweets for in a run
MaxFaults == 1        \* create_tweet calls that fail in a run of the inbox
MaxClock == 3         \* latest local time (in hours) a Date header shows

\* ------------------------------------------------------- program constants
MaxTweetLen == 280    \* create_topic_thread keeps len(clean_tweet) <= 280
CooldownEvery == 3    \* post_thread: "if i > 0 and i % 3 == 0"

None == 0             \* Python None for ids and object references

\* The two coroutines main() gathers.
Procs == {"inbox", "mentions"}

VARIABLES
    \* the session
    twitter_client,     \* self.twitter_client: None or the identity of a Client
    twitter_logged_in,  \* self.twitter_logged_in
    credentials,        \* all([twitter_username, twitter_email, ...password])
    lpc,                \* twitter_login, per caller: where it is suspended
    lres,               \* twitter_login, per caller: the value returned
    \* post_thread
    tweets,             \* the list of tweets (each its length)
    i,                  \* the loop index (0-based, as enumerate)
    previous_tweet_id,  \* None or a post id
    ptpc,               \* where the coroutine is suspended
    ptresult,           \* the value returned
    thread_id,          \* the number of calls of post_thread so far
    \* monitor_followed_tweets
    fpc,                \* where the coroutine is suspended
    follower_ids,       \* the list get_followers_ids returned
    fu,                 \* position of user_id in follower_ids
    user_tweets,        \* the list get_user_tweets returned ("tweets")
    ft,                 \* position of tweet in user_tweets
    processed_tweet_ids,
    passes,             \* iterations of "while True" started
    \* monitor_inbox
    ipc,                \* where the coroutine is
    messages,           \* the list of unread message ids of this poll
    mi,                 \* position of message in messages
    processed_messages, \* self.processed_messages
    topics,             \* analysis["topics"] of the message being handled
    ti,                 \* position of topic in topics
    \* the mailbox
    start_time,         \* self.start_time
    msg_date,           \* the Date header of each message
    payload,            \* msg["payload"] of each message
    unread,             \* the ids carrying the UNREAD label
    \* the record of the run
    trace               \* the calls made to the services and the sleeps

sessionVars == <<twitter_client, twitter_logged_in, credentials>>
loginVars == <<lpc, lres>>
threadVars == <<tweets, i, previous_tweet_id, ptpc, ptresult, thread_id>>
mentionVars == <<fpc, follower_ids, fu, user_tweets, ft, processed_tweet_ids,
                 passes>>
inboxVars == <<ipc, messages, mi, processed_messages, topics, ti>>
mailVars == <<start_time, msg_date, payload, unread>>

vars == <<sessionVars, loginVars, threadVars, mentionVars, inboxVars,
          mailVars, trace>>

\* ---------------------------------------------------------------- services
\* One entry of the trace: a call to an external service, or a sleep.
\*   kind      "call" (create_tweet), "login", "verify", "twitter_login",
\*             "classify", "generate", "mark_read", "delay", "cooldown",
\*             "monitor" (get_user_tweets, get_user_by_id; failures only),
\*             "interrupt" (KeyboardInterrupt in monitor_inbox)
\*   by        "thread" (post_thread), "inbox", "mentions"
\*   th        the call of post_thread that made it, else 0
\*   seg       the index of the tweet (create_tweet)
\*   reply_to  the reply_to argument of create_tweet (None: a top-level post)
\*   res       the outcome ("pending" while the call is in flight; of
\*             "classify": what create_newsletter_thread makes of it)
\*   id        the id of the post created
\*   client    self.twitter_client when the call was made
\*   auth      self.twitter_logged_in when the call was made
\*   item      the message monitor_inbox is handling (0: none; mention
\*             monitor: 0), and topic its position in the topics
\*   text      the text argument of a create_tweet call of post_thread (its
\*             length)
\*   segs      the segments of the generator's response ("generate"), the
\*             topics of the analysis ("classify")
\*   content   email_data["content"] given to the classifier ("classify")
CurrentItem(by) ==
    IF by # "mentions" /\ ipc \in {"msg", "topic", "posting", "topic_sleep"}
    THEN messages[mi] ELSE 0
CurrentTopic(by) ==
    IF by # "mentions" /\ ipc \in {"topic", "posting"} THEN ti ELSE 0
CurrentText(kind, by) ==
    IF kind = "call" /\ by = "thread" THEN tweets[i + 1] ELSE 0
Event(kind, by, th, seg, reply_to, res, id) ==
    [kind |-> kind, by |-> by, th |-> th, seg |-> seg, reply_to |-> reply_to,
     res |-> res, id |-> id, client |-> twitter_client,
     auth |-> twitter_logged_in, item |-> CurrentItem(by),
     topic |-> CurrentTopic(by), text |-> CurrentText(kind, by),
     segs |-> <<>>, content |-> <<>>]

IsCall(e) == e.kind = "call"
IsPost(e) == e.kind = "call" /\ e.res = "ok"

\* The ids of the posts the platform holds.
PostIds(tr) == {tr[k].id : k \in {n \in 1..Len(tr) : IsPost(tr[n])}}

\* The platform gives every post a fresh id.
NewPostId(tr) == Cardinality(PostIds(tr)) + 1

\* The outcomes of create_tweet that post_thread tells apart by the text of
\* the exception: "deleted or not visible", "Tweet needs to be shorter", and
\* any other exception.
Outcomes == {"ok", "deleted", "too_long", "other"}

\* The call in flight of a coroutine: each awaits one call at a time.
Pending(tr, by) ==
    {k \in 1..Len(tr) : tr[k].res = "pending" /\ tr[k].by = by}
PendingCall(tr, by) == CHOOSE k \in Pending(tr, by) : TRUE

Complete(tr, k, res, id) == [tr EXCEPT ![k].res = res, ![k].id = id]

\* ----------------------------------------------------------- twitter_login
\* Client("en-US") makes a new object each time.
NewClient == twitter_client + 1

\* Mutant of LoginCall: the client is replaced on every call, also when the
\* session is logged in.
LoginCall_AlwaysNewClient(p, site) ==
    IF twitter_logged_in
    THEN /\ trace' = Append(trace, Event("twitter_login", p, 0, site, None,
                                         "already", None))
         /\ lpc' = [lpc EXCEPT ![p] = "returned"]
         /\ lres' = [lres EXCEPT ![p] = TRUE]
         /\ twitter_client' = NewClient
         /\ UNCHANGED <<twitter_logged_in, credentials>>
    ELSE /\ twitter_client' = NewClient
         /\ IF ~credentials
            THEN /\ trace' = Append(trace, Event("twitter_login", p, 0, site,
                                                 None, "no_credentials", None))
                 /\ twitter_logged_in' = FALSE
                 /\ lpc' = [lpc EXCEPT ![p] = "failsleep"]
                 /\ UNCHANGED lres
            ELSE /\ trace' = Append(trace, Event("twitter_login", p, 0, site,
                                                 None, "handshake", None))
                 /\ lpc' = [lpc EXCEPT ![p] = "sleep1"]
                 /\ UNCHANGED <<twitter_logged_in, lres>>
         /\ UNCHANGED credentials

\* twitter_login called by coroutine p (site: 0 at start-up, else the pass of
\* the mention loop that re-authenticates), up to its first await or return.
\* Already logged in: "return True".  Else the client is replaced; without
\* credentials the exception is caught (twitter_logged_in = False, sleep 30),
\* with them the call sleeps 2 s before login.
LoginCall(p, site) ==
    IF twitter_logged_in
    THEN /\ trace' = Append(trace, Event("twitter_login", p, 0, site, None,
                                         "already", None))
         /\ lpc' = [lpc EXCEPT ![p] = "returned"]
         /\ lres' = [lres EXCEPT ![p] = TRUE]
         /\ UNCHANGED sessionVars
    ELSE /\ twitter_client' = NewClient
         /\ IF ~credentials
            THEN /\ trace' = Append(trace, Event("twitter_login", p, 0, site,
                                                 None, "no_credentials", None))
                 /\ twitter_logged_in' = FALSE
                 /\ lpc' = [lpc EXCEPT ![p] = "failsleep"]
                 /\ UNCHANGED lres
            ELSE /\ trace' = Append(trace, Event("twitter_login", p, 0, site,
                                                 None, "handshake", None))
                 /\ lpc' = [lpc EXCEPT ![p] = "sleep1"]
                 /\ UNCHANGED <<twitter_logged_in, lres>>
         /\ UNCHANGED credentials

\* asyncio.sleep(2) is over: self.twitter_client.login(...) is called on the
\* client the attribute holds now.  (No sleep of monitor_inbox ends before
\* monitor_followed_tweets, the second coroutine of gather, has started.)
LoginSend(p) ==
    /\ lpc[p] = "sleep1"
    /\ fpc # "start"
    /\ trace' = Append(trace, Event("login", p, 0, 0, None, "pending", None))
    /\ lpc' = [lpc EXCEPT ![p] = "login"]
    /\ UNCHANGED <<sessionVars, lres, threadVars, mentionVars, inboxVars,
                   mailVars>>

\* Mutant of LoginOk: the session is declared logged in as soon as login
\* returns, before the verification call.
LoginOk_NoVerification(p) ==
    /\ lpc[p] = "login"
    /\ trace' = Complete(trace, PendingCall(trace, p), "ok", None)
    /\ lpc' = [lpc EXCEPT ![p] = "sleep2"]
    /\ twitter_logged_in' = TRUE
    /\ UNCHANGED <<twitter_client, credentials, lres, threadVars, mentionVars,
                   inboxVars, mailVars>>

\* login returned: the call sleeps 2 s before the verification.
LoginOk(p) ==
    /\ lpc[p] = "login"
    /\ trace' = Complete(trace, PendingCall(trace, p), "ok", None)
    /\ lpc' = [lpc EXCEPT ![p] = "sleep2"]
    /\ UNCHANGED <<sessionVars, lres, threadVars, mentionVars, inboxVars,
                   mailVars>>

\* login raised: the outer handler sets twitter_logged_in = False and sleeps
\* 30 s before "return False".
LoginFails(p) ==
    /\ lpc[p] = "login"
    /\ trace' = Complete(trace, PendingCall(trace, p), "error", None)
    /\ twitter_logged_in' = FALSE
    /\ lpc' = [lpc EXCEPT ![p] = "failsleep"]
    /\ UNCHANGED <<twitter_client, credentials, lres, threadVars, mentionVars,
                   inboxVars, mailVars>>

\* The second asyncio.sleep(2) is over: get_user_by_screen_name is called.
VerifySend(p) ==
    /\ lpc[p] = "sleep2"
    /\ trace' = Append(trace, Event("verify", p, 0, 0, None, "pending", None))
    /\ lpc' = [lpc EXCEPT ![p] = "verify"]
    /\ UNCHANGED <<sessionVars, lres, threadVars, mentionVars, inboxVars,
                   mailVars>>

\* The verification call returned: twitter_logged_in = True, "return True".
VerifyOk(p) ==
    /\ lpc[p] = "verify"
    /\ trace' = Complete(trace, PendingCall(trace, p), "ok", None)
    /\ twitter_logged_in' = TRUE
    /\ lpc' = [lpc EXCEPT ![p] = "returned"]
    /\ lres' = [lres EXCEPT ![p] = TRUE]
    /\ UNCHANGED <<twitter_client, credentials, threadVars, mentionVars,
                   inboxVars, mailVars>>

\* The verification call raised: twitter_logged_in = False, "return False".
VerifyFails(p) ==
    /\ lpc[p] = "verify"
    /\ trace' = Complete(trace, PendingCall(trace, p), "error", None)
    /\ twitter_logged_in' = FALSE
    /\ lpc' = [lpc EXCEPT ![p] = "returned"]
    /\ lres' = [lres EXCEPT ![p] = FALSE]
    /\ UNCHANGED <<twitter_client, credentials, threadVars, mentionVars,
                   inboxVars, mailVars>>

\* asyncio.sleep(30) of the outer handler is over: "return False".
LoginGivesUp(p) ==
    /\ lpc[p] = "failsleep"
    /\ fpc # "start"
    /\ lpc' = [lpc EXCEPT ![p] = "returned"]
    /\ lres' = [lres EXCEPT ![p] = FALSE]
    /\ UNCHANGED <<sessionVars, threadVars, mentionVars, inboxVars, mailVars,
                   trace>>

\* ------------------------------------------------------------- post_thread
\* What post_thread never writes.
otherThanThread == <<sessionVars, loginVars, mentionVars, inboxVars, mailVars>>

\* Mutant of NextTweet: the thread counts as posted only if a post was made
\* ("return previous_tweet_id is not None").
NextTweet_NeedsPost ==
    IF i + 1 < Len(tweets)
    THEN /\ i' = i + 1
         /\ ptpc' = "delay"
         /\ ptresult' = ptresult
    ELSE /\ i' = i
         /\ ptpc' = "returned"
         /\ ptresult' = (previous_tweet_id' # None)

\* The end of one iteration of "for i, tweet in enumerate(tweets)": the next
\* tweet, or "return True" after the last one.
NextTweet ==
    IF i + 1 < Len(tweets)
    THEN /\ i' = i + 1
         /\ ptpc' = "delay"
         /\ ptresult' = ptresult
    ELSE /\ i' = i
         /\ ptpc' = "returned"
         /\ ptresult' = TRUE

\* post_thread up to its first await: the client check, previous_tweet_id =
\* None, and the first iteration up to asyncio.sleep(delay).
PostThreadStart ==
    /\ ptpc = "entry"
    /\ thread_id' = thread_id + 1
    /\ previous_tweet_id' = None
    /\ i' = 0
    /\ IF twitter_client = None
       THEN ptpc' = "returned" /\ ptresult' = FALSE
       ELSE IF Len(tweets) = 0
            THEN ptpc' = "returned" /\ ptresult' = TRUE
            ELSE ptpc' = "delay" /\ ptresult' = ptresult
    /\ UNCHANGED <<tweets, trace>>
    /\ UNCHANGED otherThanThread

\* Mutant of PostTweet: every tweet is sent as a top-level post.
PostTweet_NeverReplies ==
    /\ ptpc = "delay"
    /\ trace' = trace \o
         <<Event("delay", "thread", thread_id, i, None, "-", None),
           Event("call", "thread", thread_id, i, None, "pending", None)>>
    /\ ptpc' = IF previous_tweet_id # None THEN "reply" ELSE "top"
    /\ UNCHANGED <<tweets, i, previous_tweet_id, ptresult, thread_id>>
    /\ UNCHANGED otherThanThread

\* Mutant of PostTweet: the tweet replies to the latest post made through
\* the client, whoever made it.
PostTweet_SharedChain ==
    /\ ptpc = "delay"
    /\ trace' = trace \o
         <<Event("delay", "thread", thread_id, i, None, "-", None),
           Event("call", "thread", thread_id, i,
                 IF previous_tweet_id # None
                 THEN Cardinality(PostIds(trace)) ELSE None,
                 "pending", None)>>
    /\ ptpc' = IF previous_tweet_id # None THEN "reply" ELSE "top"
    /\ UNCHANGED <<tweets, i, previous_tweet_id, ptresult, thread_id>>
    /\ UNCHANGED otherThanThread

\* The jittered sleep is over and create_tweet is called: as a reply when
\* previous_tweet_id is set, else as a top-level post.
PostTweet ==
    /\ ptpc = "delay"
    /\ trace' = trace \o
         <<Event("delay", "thread", thread_id, i, None, "-", None),
           Event("call", "thread", thread_id, i, previous_tweet_id, "pending",
                 None)>>
    /\ ptpc' = IF previous_tweet_id # None THEN "reply" ELSE "top"
    /\ UNCHANGED <<tweets, i, previous_tweet_id, ptresult, thread_id>>
    /\ UNCHANGED otherThanThread

\* Mutant of PublishOk: previous_tweet_id is set by the first post only, so
\* every later tweet replies to the head of the thread.
PublishOk_KeepFirst ==
    /\ ptpc \in {"reply", "top", "retry"}
    /\ LET id == NewPostId(trace) IN
        /\ trace' = Complete(trace, PendingCall(trace, "thread"), "ok", id)
        /\ previous_tweet_id' =
             IF previous_tweet_id = None THEN id ELSE previous_tweet_id
    /\ IF i > 0 /\ i % CooldownEvery = 0
       THEN ptpc' = "cooldown" /\ UNCHANGED <<i, ptresult>>
       ELSE NextTweet
    /\ UNCHANGED <<tweets, thread_id>>
    /\ UNCHANGED otherThanThread

\* create_tweet returned a response: previous_tweet_id = response.id, then
\* the longer break "if i > 0 and i % 3 == 0", then the next tweet.
PublishOk ==
    /\ ptpc \in {"reply", "top", "retry"}
    /\ LET id == NewPostId(trace) IN
        /\ trace' = Complete(trace, PendingCall(trace, "thread"), "ok", id)
        /\ previous_tweet_id' = id
    /\ IF i > 0 /\ i % CooldownEvery = 0
       THEN ptpc' = "cooldown" /\ UNCHANGED <<i, ptresult>>
       ELSE NextTweet
    /\ UNCHANGED <<tweets, thread_id>>
    /\ UNCHANGED otherThanThread

\* asyncio.sleep(60) is over.
Cooldown ==
    /\ ptpc = "cooldown"
    /\ trace' = Append(trace, Event("cooldown", "thread", thread_id, i, None,
                                     "-", None))
    /\ UNCHANGED <<tweets, previous_tweet_id, thread_id>>
    /\ UNCHANGED otherThanThread
    /\ NextTweet

\* Mutant of PublishParentDeleted: no repair, the error ends the thread.
PublishParentDeleted_Abort ==
    /\ ptpc = "reply"
    /\ trace' = Complete(trace, PendingCall(trace, "thread"), "deleted", None)
    /\ ptpc' = "returned"
    /\ ptresult' = FALSE
    /\ UNCHANGED <<tweets, i, previous_tweet_id, thread_id>>
    /\ UNCHANGED otherThanThread

\* Mutant of PublishParentDeleted: the retry is handled like the reply, so a
\* retry that raises "deleted or not visible" is retried again.
PublishParentDeleted_RetriesAgain ==
    /\ ptpc = "reply"
    /\ trace' = Append(Complete(trace, PendingCall(trace, "thread"),
                                "deleted", None),
                       Event("call", "thread", thread_id, i, None, "pending",
                             None))
    /\ ptpc' = "reply"
    /\ UNCHANGED <<tweets, i, previous_tweet_id, ptresult, thread_id>>
    /\ UNCHANGED otherThanThread

\* The reply raised "deleted or not visible": the same tweet is posted again
\* at once, without reply_to.
PublishParentDeleted ==
    /\ ptpc = "reply"
    /\ trace' = Append(Complete(trace, PendingCall(trace, "thread"),
                                "deleted", None),
                       Event("call", "thread", thread_id, i, None, "pending",
                             None))
    /\ ptpc' = "retry"
    /\ UNCHANGED <<tweets, i, previous_tweet_id, ptresult, thread_id>>
    /\ UNCHANGED otherThanThread

\* Mutant of PublishTooLong: the error ends the thread instead of skipping.
PublishTooLong_Abort ==
    /\ ptpc \in {"reply", "top", "retry"}
    /\ trace' = Complete(trace, PendingCall(trace, "thread"), "too_long", None)
    /\ ptpc' = "returned"
    /\ ptresult' = FALSE
    /\ UNCHANGED <<tweets, i, previous_tweet_id, thread_id>>
    /\ UNCHANGED otherThanThread

\* Any call raised "Tweet needs to be shorter": the tweet is skipped.
PublishTooLong ==
    /\ ptpc \in {"reply", "top", "retry"}
    /\ trace' = Complete(trace, PendingCall(trace, "thread"), "too_long", None)
    /\ UNCHANGED <<tweets, previous_tweet_id, thread_id>>
    /\ UNCHANGED otherThanThread
    /\ NextTweet

\* Mutant of PublishError: every exception is handled like a tweet that is
\* too long, and the loop goes on.
PublishError_Continue ==
    /\ ptpc \in {"reply", "top", "retry"}
    /\ \E res \in Outcomes \ {"ok", "too_long"} :
        /\ ptpc = "reply" => res # "deleted"
        /\ trace' = Complete(trace, PendingCall(trace, "thread"), res, None)
    /\ UNCHANGED <<tweets, previous_tweet_id, thread_id>>
    /\ UNCHANGED otherThanThread
    /\ NextTweet

\* Any other exception, and "deleted or not visible" from a call that was
\* not a reply: "return False".
PublishError ==
    /\ ptpc \in {"reply", "top", "retry"}
    /\ \E res \in Outcomes \ {"ok", "too_long"} :
        /\ ptpc = "reply" => res # "deleted"
        /\ trace' = Complete(trace, PendingCall(trace, "thread"), res, None)
    /\ ptpc' = "returned"
    /\ ptresult' = FALSE
    /\ UNCHANGED <<tweets, i, previous_tweet_id, thread_id>>
    /\ UNCHANGED otherThanThread

\* -------------------------------------------------- monitor_followed_tweets
\* What the mention monitor writes only through twitter_login.
otherThanMentions == <<threadVars, inboxVars, mailVars>>

\* The lists get_followers_ids returns, the lists get_user_tweets returns for
\* a follower (tweet ids are negative, the ids of our own posts positive;
\* mention: "@bot" occurs in the text), and the two kinds of exception text
\* the loop tells apart ("authenticate" in str(e).lower()).
FollowerLists == {<<>>, <<1>>}
Mention == [id |-> -1, mention |-> TRUE]
Chatter == [id |-> -2, mention |-> FALSE]
UserTweetLists == {<<>>, <<Mention>>, <<Mention, Chatter>>}
ErrorKinds == {"auth", "other"}

\* "for user_id in follower_ids" reaches position k: get_user_tweets is
\* called, or after the last follower the pass ends with asyncio.sleep(30).
BeginUser(list, k) ==
    IF k <= Len(list)
    THEN fpc' = "get_tweets" /\ fu' = k
    ELSE fpc' = "pass_sleep" /\ fu' = fu

\* "for tweet in tweets" reaches position k, or the next follower.
BeginTweet(k) ==
    IF k <= Len(user_tweets)
    THEN fpc' = "tweet" /\ ft' = k /\ fu' = fu
    ELSE ft' = ft /\ BeginUser(follower_ids, fu + 1)

\* monitor_followed_tweets up to its first await.  It runs right after
\* monitor_inbox reached its first await (asyncio.gather starts the
\* coroutines in argument order).  No client: the exception ends the
\* coroutine.  Not logged in: twitter_login is called.
MentionsStart ==
    /\ fpc = "start"
    /\ ipc = "login"
    /\ IF twitter_client = None
       THEN /\ fpc' = "exited"
            /\ UNCHANGED <<sessionVars, loginVars, trace>>
       ELSE IF ~twitter_logged_in
            THEN /\ fpc' = "login"
                 /\ LoginCall("mentions", 0)
            ELSE /\ fpc' = "followers"
                 /\ UNCHANGED <<sessionVars, loginVars, trace>>
    /\ UNCHANGED <<follower_ids, fu, user_tweets, ft, processed_tweet_ids,
                   passes>>
    /\ UNCHANGED otherThanMentions

\* twitter_login returned: "if not self.twitter_logged_in: raise", else
\* get_followers_ids is called.
MentionsLoginReturned ==
    /\ fpc = "login"
    /\ lpc["mentions"] = "returned"
    /\ lpc' = [lpc EXCEPT !["mentions"] = "idle"]
    /\ fpc' = IF twitter_logged_in THEN "followers" ELSE "exited"
    /\ UNCHANGED <<sessionVars, lres, trace>>
    /\ UNCHANGED <<follower_ids, fu, user_tweets, ft, processed_tweet_ids,
                   passes>>
    /\ UNCHANGED otherThanMentions

\* get_followers_ids returned: the first pass of "while True" starts.
MentionsFollowers ==
    /\ fpc = "followers"
    /\ \E list \in FollowerLists :
        /\ follower_ids' = list
        /\ BeginUser(list, 1)
    /\ passes' = 1
    /\ UNCHANGED <<user_tweets, ft, processed_tweet_ids>>
    /\ UNCHANGED <<sessionVars, loginVars, trace>>
    /\ UNCHANGED otherThanMentions

\* get_followers_ids raised: the outermost handler ends the coroutine.
MentionsFollowersFail ==
    /\ fpc = "followers"
    /\ fpc' = "exited"
    /\ UNCHANGED <<follower_ids, fu, user_tweets, ft, processed_tweet_ids,
                   passes>>
    /\ UNCHANGED <<sessionVars, loginVars, trace>>
    /\ UNCHANGED otherThanMentions

\* get_user_tweets returned: with tweets get_user_by_id is called, without
\* the loop goes to the next follower.
MentionsGetTweets ==
    /\ fpc = "get_tweets"
    /\ \E list \in UserTweetLists :
        /\ user_tweets' = list
        /\ IF list # <<>>
           THEN fpc' = "get_user" /\ fu' = fu
           ELSE BeginUser(follower_ids, fu + 1)
    /\ UNCHANGED <<follower_ids, ft, processed_tweet_ids, passes>>
    /\ UNCHANGED <<sessionVars, loginVars, trace>>
    /\ UNCHANGED otherThanMentions

\* get_user_by_id returned: the tweets are gone through.
MentionsGetUser ==
    /\ fpc = "get_user"
    /\ BeginTweet(1)
    /\ UNCHANGED <<follower_ids, user_tweets, processed_tweet_ids, passes>>
    /\ UNCHANGED <<sessionVars, loginVars, trace>>
    /\ UNCHANGED otherThanMentions

\* get_user_tweets or get_user_by_id raised: "except Exception ... continue"
\* goes to the next follower, whatever the exception says (also when it
\* reports that the session is no longer authenticated); twitter_logged_in
\* is not touched.
MentionsUserError ==
    /\ fpc \in {"get_tweets", "get_user"}
    /\ \E kind \in ErrorKinds :
        trace' = Append(trace, Event("monitor", "mentions", 0, passes, None,
                                     kind, None))
    /\ BeginUser(follower_ids, fu + 1)
    /\ UNCHANGED <<follower_ids, user_tweets, ft, processed_tweet_ids, passes>>
    /\ UNCHANGED <<sessionVars, loginVars>>
    /\ UNCHANGED otherThanMentions

\* One tweet, up to the sleep before the reply: a processed tweet is passed
\* over; a tweet without mention, or for which no response was generated, is
\* marked processed.
MentionsTweet ==
    /\ fpc = "tweet"
    /\ LET tweet == user_tweets[ft] IN
        IF tweet.id \in processed_tweet_ids
        THEN /\ BeginTweet(ft + 1)
             /\ UNCHANGED processed_tweet_ids
        ELSE IF ~tweet.mention
             THEN /\ BeginTweet(ft + 1)
                  /\ processed_tweet_ids' = processed_tweet_ids \cup {tweet.id}
             ELSE \E response \in {"", "text"} :
                    IF response = ""
                    THEN /\ BeginTweet(ft + 1)
                         /\ processed_tweet_ids' =
                                processed_tweet_ids \cup {tweet.id}
                    ELSE /\ fpc' = "reply_delay"
                         /\ UNCHANGED <<fu, ft, processed_tweet_ids>>
    /\ UNCHANGED <<follower_ids, user_tweets, passes>>
    /\ UNCHANGED <<sessionVars, loginVars, trace>>
    /\ UNCHANGED otherThanMentions

\* The sleep before responding is over: create_tweet(reply_to=tweet.id).
MentionsReply ==
    /\ fpc = "reply_delay"
    /\ trace' = Append(trace, Event("call", "mentions", 0, ft,
                                    user_tweets[ft].id, "pending", None))
    /\ fpc' = "reply"
    /\ UNCHANGED <<follower_ids, fu, user_tweets, ft, processed_tweet_ids,
                   passes>>
    /\ UNCHANGED <<sessionVars, loginVars>>
    /\ UNCHANGED otherThanMentions

\* The reply was posted: asyncio.sleep(30).
MentionsReplyOk ==
    /\ fpc = "reply"
    /\ trace' = Complete(trace, PendingCall(trace, "mentions"), "ok",
                         NewPostId(trace))
    /\ fpc' = "reply_pause"
    /\ UNCHANGED <<follower_ids, fu, user_tweets, ft, processed_tweet_ids,
                   passes>>
    /\ UNCHANGED <<sessionVars, loginVars>>
    /\ UNCHANGED otherThanMentions

\* Mutant of MentionsReplyFails: a tweet whose reply raised is not marked
\* processed.
MentionsReplyFails_NotRecorded ==
    /\ fpc = "reply"
    /\ trace' = Complete(trace, PendingCall(trace, "mentions"), "other", None)
    /\ processed_tweet_ids' = processed_tweet_ids
    /\ BeginTweet(ft + 1)
    /\ UNCHANGED <<follower_ids, user_tweets, passes>>
    /\ UNCHANGED <<sessionVars, loginVars>>
    /\ UNCHANGED otherThanMentions

\* The reply raised: the error is printed and the tweet marked processed.
MentionsReplyFails ==
    /\ fpc = "reply"
    /\ trace' = Complete(trace, PendingCall(trace, "mentions"), "other", None)
    /\ processed_tweet_ids' = processed_tweet_ids \cup {user_tweets[ft].id}
    /\ BeginTweet(ft + 1)
    /\ UNCHANGED <<follower_ids, user_tweets, passes>>
    /\ UNCHANGED <<sessionVars, loginVars>>
    /\ UNCHANGED otherThanMentions

\* The sleep after the reply is over: the tweet is marked processed.
MentionsReplyPause ==
    /\ fpc = "reply_pause"
    /\ processed_tweet_ids' = processed_tweet_ids \cup {user_tweets[ft].id}
    /\ BeginTweet(ft + 1)
    /\ UNCHANGED <<follower_ids, user_tweets, passes>>
    /\ UNCHANGED <<sessionVars, loginVars, trace>>
    /\ UNCHANGED otherThanMentions

\* The sleep that ends a pass, or the one of the error handler, is over: the
\* next pass starts.
MentionsNextPass ==
    /\ fpc \in {"pass_sleep", "err_sleep"}
    /\ passes < MaxPasses
    /\ passes' = passes + 1
    /\ BeginUser(follower_ids, 1)
    /\ UNCHANGED <<follower_ids, user_tweets, ft, processed_tweet_ids>>
    /\ UNCHANGED <<sessionVars, loginVars, trace>>
    /\ UNCHANGED otherThanMentions

\* An exception raised in the while loop outside the per-follower handler
\* reaches "except Exception as e" of the loop: with "authenticate" in its
\* text twitter_login is called, and in both cases the loop sleeps 60 s.
MentionsLoopError ==
    /\ fpc = "pass_sleep"
    /\ \E kind \in ErrorKinds :
        IF kind = "auth"
        THEN /\ fpc' = "relogin"
             /\ LoginCall("mentions", passes)
        ELSE /\ fpc' = "err_sleep"
             /\ UNCHANGED <<sessionVars, loginVars, trace>>
    /\ UNCHANGED <<follower_ids, fu, user_tweets, ft, processed_tweet_ids,
                   passes>>
    /\ UNCHANGED otherThanMentions

\* The twitter_login of the handler returned: asyncio.sleep(60).
MentionsReloginReturned ==
    /\ fpc = "relogin"
    /\ lpc["mentions"] = "returned"
    /\ lpc' = [lpc EXCEPT !["mentions"] = "idle"]
    /\ fpc' = "err_sleep"
    /\ UNCHANGED <<sessionVars, lres, trace>>
    /\ UNCHANGED <<follower_ids, fu, user_tweets, ft, processed_tweet_ids,
                   passes>>
    /\ UNCHANGED otherThanMentions

\* ------------------------------------------------------------ the mailbox
Msgs == 1..NumMsgs

\* A Date header: absent, not parseable by email.utils.parsedate_tz, or a
\* local time with a zone offset.
NoDate == [kind |-> "none", local |-> 0, off |-> 0]
BadDate == [kind |-> "bad", local |-> 0, off |-> 0]
Date(local, off) == [kind |-> "date", local |-> local, off |-> off]

\* Mutant of mktime_tz: the zone offset is ignored (time.mktime of the
\* local fields).
mktime_tz_IgnoresZone(d) == d.local

\* email.utils.mktime_tz: the instant (UTC) a parsed date denotes.
mktime_tz(d) == d.local - d.off

\* Mutant of is_new_email: a date that does not parse counts as new.
is_new_email_UnparsedIsNew(d) ==
    IF d.kind # "date" THEN TRUE ELSE mktime_tz(d) > start_time

\* is_new_email: False when parsedate_tz yields None, else whether the
\* instant is later than start_time.
is_new_email(d) ==
    IF d.kind # "date" THEN FALSE ELSE mktime_tz(d) > start_time

\* "if date and self.is_new_email(date)" of monitor_inbox.
IsNew(id) == msg_date[id].kind # "none" /\ is_new_email(msg_date[id])

\* users().messages().list(q="is:unread"): the unread ids, newest first.
RECURSIVE ListUnread(_)
ListUnread(S) ==
    IF S = {} THEN <<>>
    ELSE LET m == CHOOSE x \in S : \A y \in S : y <= x
         IN  <<m>> \o ListUnread(S \ {m})

\* ------------------------------------------------------- the message body
\* A part of a payload: its mimeType, the data of its body (has_data: the
\* key is there; the data is a sequence of base64 groups), and its parts
\* (has_parts: the key is there).
Leaf(mime, has_data, data) ==
    [mimeType |-> mime, has_data |-> has_data, data |-> data,
     has_parts |-> FALSE, parts |-> <<>>]
Multipart(parts) ==
    [mimeType |-> "multipart/mixed", has_data |-> FALSE, data |-> <<>>,
     has_parts |-> TRUE, parts |-> parts]

\* base64.urlsafe_b64decode(...).decode("utf-8"), group by group.
Base64 == [QQ |-> "A", Qg |-> "B", Qw |-> "C", RA |-> "D"]
b64decode(data) == [k \in 1..Len(data) |-> Base64[data[k]]]

\* Mutant of get_message_body: the parts of a part are not gone into.
RECURSIVE get_message_body_NoNesting(_)
get_message_body_NoNesting(parts) ==
    IF parts = <<>> THEN <<>>
    ELSE LET part == Head(parts)
             text == IF part.mimeType = "text/plain" /\ part.has_data
                     THEN b64decode(part.data)
                     ELSE <<>>
         IN  text \o get_message_body_NoNesting(Tail(parts))

\* _get_message_body
RECURSIVE get_message_body(_)
get_message_body(parts) ==
    IF parts = <<>> THEN <<>>
    ELSE LET part == Head(parts)
             text == IF part.mimeType = "text/plain"
                     THEN IF part.has_data THEN b64decode(part.data)
                          ELSE <<>>
                     ELSE IF part.has_parts
                          THEN get_message_body(part.parts)
                          ELSE <<>>
         IN  text \o get_message_body(Tail(parts))

\* The content process_message puts in its record.
Content(pl) ==
    IF pl.has_parts THEN get_message_body(pl.parts)
    ELSE b64decode(IF pl.has_data THEN pl.data ELSE <<>>)

\* The payload of the messages of the runs that do not look at the body.
PlainPayload == Leaf("text/plain", TRUE, <<"QQ">>)

\* ------------------------------------------- classification and generation
\* The text analyze_email_type returns, by what json.loads and the lookups
\* of create_newsletter_thread make of it: json (it parses), type, and the
\* topics list (has_topics: the key is there).
Analysis(json, type, has_topics, tl) ==
    [json |-> json, type |-> type, has_topics |-> has_topics, topics |-> tl]
TopicLists == {<<>>, <<"T1">>, <<"T1", "T2">>}
Analyses ==
    {Analysis(FALSE, "-", FALSE, <<>>),
     Analysis(TRUE, "NOT_NEWSLETTER", TRUE, <<>>),
     Analysis(TRUE, "NEWSLETTER", FALSE, <<>>)}
    \cup {Analysis(TRUE, "NEWSLETTER", TRUE, tl) : tl \in TopicLists}

\* Mutant of TopicsOf: the type of the analysis is not looked at.
TopicsOf_IgnoresType(a) ==
    IF ~a.json THEN <<>>
    ELSE IF ~a.has_topics THEN <<>>
    ELSE a.topics

\* The topics create_newsletter_thread loops over: none when json.loads
\* raises, when the type is not NEWSLETTER, or when analysis["topics"]
\* raises KeyError.
TopicsOf(a) ==
    IF ~a.json THEN <<>>
    ELSE IF a.type # "NEWSLETTER" THEN <<>>
    ELSE IF ~a.has_topics THEN <<>>
    ELSE a.topics

\* What create_newsletter_thread makes of the analysis: json.loads raises
\* ("unparseable"), the type check returns ("not_newsletter"), the lookup of
\* the topics raises KeyError ("error"), or the loop over the topics is
\* reached ("newsletter").
Treatment(a) ==
    IF ~a.json THEN "unparseable"
    ELSE IF a.type # "NEWSLETTER" THEN "not_newsletter"
    ELSE IF ~a.has_topics THEN "error"
    ELSE "newsletter"

\* The analyses of the inbox runs: one that gives no topics stands for all
\* that give none.
InboxAnalyses ==
    {Analysis(FALSE, "-", FALSE, <<>>)}
    \cup {Analysis(TRUE, "NEWSLETTER", TRUE, tl) : tl \in TopicLists \ {<<>>}}

\* A segment of the generator's response between two [TWEET] marks: the
\* length of its stripped text and how many of its characters the clean-up
\* regex removes.
Seg(len, markup) == [len |-> len, markup |-> markup]
clean_tweet(s) == s.len - s.markup

\* Mutant of valid_tweets: a segment longer than 280 characters is cut to
\* 280 instead of dropped.
RECURSIVE valid_tweets_Truncates(_)
valid_tweets_Truncates(segs) ==
    IF segs = <<>> THEN <<>>
    ELSE LET s == Head(segs)
             rest == valid_tweets_Truncates(Tail(segs))
         IN  IF s.len = 0 THEN rest
             ELSE IF clean_tweet(s) <= MaxTweetLen
                  THEN <<clean_tweet(s)>> \o rest
                  ELSE <<MaxTweetLen>> \o rest

\* create_topic_thread after the response: empty segments are dropped, the
\* rest cleaned, and those longer than 280 characters dropped.
RECURSIVE valid_tweets(_)
valid_tweets(segs) ==
    IF segs = <<>> THEN <<>>
    ELSE LET s == Head(segs)
             rest == valid_tweets(Tail(segs))
         IN  IF s.len = 0 THEN rest
             ELSE IF clean_tweet(s) <= MaxTweetLen
                  THEN <<clean_tweet(s)>> \o rest
                  ELSE rest

\* The responses of the generator; <<>> also stands for a call that raised
\* (create_topic_thread then returns []).
Responses ==
    {<<>>,
     <<Seg(MaxTweetLen + 1, 0), Seg(100, 0), Seg(0, 0), Seg(MaxTweetLen, 0)>>}

\* ----------------------------------------------------------- monitor_inbox
\* What the inbox loop writes only through twitter_login and post_thread.
otherThanInbox == <<mentionVars, start_time, msg_date, payload>>

\* "for message in messages" reaches position k, or the poll ends with
\* asyncio.sleep(check_interval).  (Locals that go out of scope are reset.)
BeginMessage(k) ==
    IF k <= Len(messages)
    THEN ipc' = "msg" /\ mi' = k /\ messages' = messages
    ELSE ipc' = "sleep" /\ mi' = 0 /\ messages' = <<>>

\* Mutant of Record: the list keeps the latest id only.
Record_KeepsLast(list, id) == <<id>>

\* Mutant of Record: the id is not appended.
Record_Forgets(list, id) == list

\* self.processed_messages.append(message_id)
Record(list, id) == Append(list, id)

\* message_id in self.processed_messages
AlreadyProcessed(id) ==
    \E k \in 1..Len(processed_messages) : processed_messages[k] = id

\* The message is done: it is appended to processed_messages and the loop
\* goes to the next message.
FinishMessage ==
    /\ processed_messages' = Record(processed_messages, messages[mi])
    /\ BeginMessage(mi + 1)

\* "for topic in analysis['topics']" reaches position k, or the message is
\* done.
BeginTopic(list, k) ==
    IF k <= Len(list)
    THEN /\ ipc' = "topic"
         /\ ti' = k
         /\ topics' = list
         /\ UNCHANGED <<messages, mi, processed_messages>>
    ELSE /\ ti' = 0
         /\ topics' = <<>>
         /\ FinishMessage

\* monitor_inbox up to its first await: twitter_login is called.
InboxStart ==
    /\ ipc = "start"
    /\ ipc' = "login"
    /\ LoginCall("inbox", 0)
    /\ UNCHANGED <<messages, mi, processed_messages, topics, ti>>
    /\ UNCHANGED <<threadVars, unread>>
    /\ UNCHANGED otherThanInbox

\* twitter_login returned: whatever it returned, "login successful" is
\* printed and the loop starts.
InboxLoginReturned ==
    /\ ipc = "login"
    /\ lpc["inbox"] = "returned"
    /\ lpc' = [lpc EXCEPT !["inbox"] = "idle"]
    /\ ipc' = "poll"
    /\ UNCHANGED <<messages, mi, processed_messages, topics, ti>>
    /\ UNCHANGED <<sessionVars, lres, threadVars, unread, trace>>
    /\ UNCHANGED otherThanInbox

\* A poll: the unread messages are listed.
InboxPoll ==
    /\ ipc = "poll"
    /\ IF unread # {}
       THEN ipc' = "msg" /\ mi' = 1 /\ messages' = ListUnread(unread)
       ELSE ipc' = "sleep" /\ mi' = 0 /\ messages' = <<>>
    /\ UNCHANGED <<processed_messages, topics, ti>>
    /\ UNCHANGED <<sessionVars, loginVars, threadVars, unread, trace>>
    /\ UNCHANGED otherThanInbox

\* Mutant of InboxListFails: the exception ends the loop.
InboxListFails_EndsLoop ==
    /\ ipc = "poll"
    /\ ipc' = "exited"
    /\ UNCHANGED <<messages, mi, processed_messages, topics, ti>>
    /\ UNCHANGED <<sessionVars, loginVars, threadVars, unread, trace>>
    /\ UNCHANGED otherThanInbox

\* list raised: "except Exception" of the loop, sleep 10 s.
InboxListFails ==
    /\ ipc = "poll"
    /\ ipc' = "backoff"
    /\ UNCHANGED <<messages, mi, processed_messages, topics, ti>>
    /\ UNCHANGED <<sessionVars, loginVars, threadVars, unread, trace>>
    /\ UNCHANGED otherThanInbox

\* get raised for a message not yet processed, or modify raised for one
\* that is not new: the handler of the loop ends the poll, sleep 10 s.
InboxFetchFails ==
    /\ ipc = "msg"
    /\ ~AlreadyProcessed(messages[mi])
    /\ ipc' = "backoff"
    /\ messages' = <<>>
    /\ mi' = 0
    /\ UNCHANGED <<processed_messages, topics, ti>>
    /\ UNCHANGED <<sessionVars, loginVars, threadVars, unread, trace>>
    /\ UNCHANGED otherThanInbox

\* asyncio.sleep(check_interval), or the sleep after an error, is over.
InboxSleep ==
    /\ ipc \in {"sleep", "backoff"}
    /\ ipc' = "poll"
    /\ UNCHANGED <<messages, mi, processed_messages, topics, ti>>
    /\ UNCHANGED <<sessionVars, loginVars, threadVars, unread, trace>>
    /\ UNCHANGED otherThanInbox

\* "Skipping already processed message".
InboxSkipProcessed ==
    /\ ipc = "msg"
    /\ AlreadyProcessed(messages[mi])
    /\ BeginMessage(mi + 1)
    /\ UNCHANGED <<processed_messages, topics, ti>>
    /\ UNCHANGED <<sessionVars, loginVars, threadVars, unread, trace>>
    /\ UNCHANGED otherThanInbox

\* Mutant of InboxMarkOld: the UNREAD label is left on the message.
InboxMarkOld_KeepsUnread ==
    /\ ipc = "msg"
    /\ ~AlreadyProcessed(messages[mi])
    /\ ~IsNew(messages[mi])
    /\ unread' = unread
    /\ trace' = Append(trace, Event("mark_read", "inbox", 0, 0,
                                    None, "ok", None))
    /\ BeginMessage(mi + 1)
    /\ UNCHANGED <<processed_messages, topics, ti>>
    /\ UNCHANGED <<sessionVars, loginVars, threadVars>>
    /\ UNCHANGED otherThanInbox

\* Mutant of InboxMarkOld: a message that is marked read is recorded as
\* processed as well.
InboxMarkOld_Records ==
    /\ ipc = "msg"
    /\ ~AlreadyProcessed(messages[mi])
    /\ ~IsNew(messages[mi])
    /\ unread' = unread \ {messages[mi]}
    /\ trace' = Append(trace, Event("mark_read", "inbox", 0, 0,
                                    None, "ok", None))
    /\ processed_messages' = Record(processed_messages, messages[mi])
    /\ BeginMessage(mi + 1)
    /\ UNCHANGED <<topics, ti>>
    /\ UNCHANGED <<sessionVars, loginVars, threadVars>>
    /\ UNCHANGED otherThanInbox

\* The message was fetched and is not new: it is marked read.
InboxMarkOld ==
    /\ ipc = "msg"
    /\ ~AlreadyProcessed(messages[mi])
    /\ ~IsNew(messages[mi])
    /\ unread' = unread \ {messages[mi]}
    /\ trace' = Append(trace, Event("mark_read", "inbox", 0, 0,
                                    None, "ok", None))
    /\ BeginMessage(mi + 1)
    /\ UNCHANGED <<processed_messages, topics, ti>>
    /\ UNCHANGED <<sessionVars, loginVars, threadVars>>
    /\ UNCHANGED otherThanInbox

\* Mutant of InboxProcessFails: the message is recorded as processed.
InboxProcessFails_Records ==
    /\ ipc = "msg"
    /\ ~AlreadyProcessed(messages[mi])
    /\ IsNew(messages[mi])
    /\ processed_messages' = Record(processed_messages, messages[mi])
    /\ BeginMessage(mi + 1)
    /\ UNCHANGED <<topics, ti>>
    /\ UNCHANGED <<sessionVars, loginVars, threadVars, unread, trace>>
    /\ UNCHANGED otherThanInbox

\* The message is new but process_message returns {} (its own fetch or the
\* decoding of the body raised): nothing is done with it.
InboxProcessFails ==
    /\ ipc = "msg"
    /\ ~AlreadyProcessed(messages[mi])
    /\ IsNew(messages[mi])
    /\ BeginMessage(mi + 1)
    /\ UNCHANGED <<processed_messages, topics, ti>>
    /\ UNCHANGED <<sessionVars, loginVars, threadVars, unread, trace>>
    /\ UNCHANGED otherThanInbox

\* Mutant of Classify: the topics are gone through from the last to the
\* first.
Reverse(list) == [k \in 1..Len(list) |-> list[Len(list) + 1 - k]]
Classify_ReversesTopics(A) ==
    /\ ipc = "msg"
    /\ ~AlreadyProcessed(messages[mi])
    /\ IsNew(messages[mi])
    /\ \E a \in A :
        /\ trace' = Append(trace, [Event("classify", "inbox", 0, 0, None,
                                         Treatment(a), None)
                                     EXCEPT !.segs = TopicsOf(a),
                                            !.content =
                                                Content(payload[messages[mi]])])
        /\ BeginTopic(Reverse(TopicsOf(a)), 1)
    /\ UNCHANGED <<sessionVars, loginVars, threadVars, unread>>
    /\ UNCHANGED otherThanInbox

\* The message is new and process_message returned its record: it is
\* classified (analyze_email_type answers with an analysis of the set A) and
\* create_newsletter_thread starts on the topics of the analysis; without
\* topics the message is done.
Classify(A) ==
    /\ ipc = "msg"
    /\ ~AlreadyProcessed(messages[mi])
    /\ IsNew(messages[mi])
    /\ \E a \in A :
        /\ trace' = Append(trace, [Event("classify", "inbox", 0, 0, None,
                                         Treatment(a), None)
                                     EXCEPT !.segs = TopicsOf(a),
                                            !.content =
                                                Content(payload[messages[mi]])])
        /\ BeginTopic(TopicsOf(a), 1)
    /\ UNCHANGED <<sessionVars, loginVars, threadVars, unread>>
    /\ UNCHANGED otherThanInbox

\* The inbox loop at a new message.
InboxClassify == Classify(InboxAnalyses)

\* Mutant of Generate: a topic without valid tweets ends the topics of the
\* message.
Generate_EmptyEndsTopics(R) ==
    /\ ipc = "topic"
    /\ \E r \in R :
        /\ trace' = Append(trace, [Event("generate", "inbox", 0, 0, None,
                                         "ok", None) EXCEPT !.segs = r])
        /\ IF valid_tweets(r) = <<>>
           THEN /\ BeginTopic(topics, Len(topics) + 1)
                /\ UNCHANGED <<tweets, ptpc>>
           ELSE /\ tweets' = valid_tweets(r)
                /\ ptpc' = "entry"
                /\ ipc' = "posting"
                /\ UNCHANGED <<messages, mi, processed_messages, topics, ti>>
    /\ UNCHANGED <<i, previous_tweet_id, ptresult, thread_id>>
    /\ UNCHANGED <<sessionVars, loginVars, unread>>
    /\ UNCHANGED otherThanInbox

\* One topic, with the generator answering from the set R of responses:
\* create_topic_thread generates the tweets; without valid tweets the loop
\* goes to the next topic, else post_thread is called.
Generate(R) ==
    /\ ipc = "topic"
    /\ \E r \in R :
        /\ trace' = Append(trace, [Event("generate", "inbox", 0, 0, None,
                                         "ok", None) EXCEPT !.segs = r])
        /\ IF valid_tweets(r) = <<>>
           THEN /\ BeginTopic(topics, ti + 1)
                /\ UNCHANGED <<tweets, ptpc>>
           ELSE /\ tweets' = valid_tweets(r)
                /\ ptpc' = "entry"
                /\ ipc' = "posting"
                /\ UNCHANGED <<messages, mi, processed_messages, topics, ti>>
    /\ UNCHANGED <<i, previous_tweet_id, ptresult, thread_id>>
    /\ UNCHANGED <<sessionVars, loginVars, unread>>
    /\ UNCHANGED otherThanInbox

\* The inbox loop at a topic; a run has at most MaxThreads post_thread calls.
InboxTopic ==
    /\ Generate(Responses)
    /\ ipc' = "posting" => thread_id < MaxThreads

\* Mutant of InboxThreadReturned: when post_thread returned False the
\* remaining topics of the message are dropped.
InboxThreadReturned_FailureEndsTopics ==
    /\ ipc = "posting"
    /\ ptpc = "returned"
    /\ ptpc' = "idle"
    /\ tweets' = <<>>
    /\ i' = 0
    /\ previous_tweet_id' = None
    /\ ptresult' = FALSE
    /\ IF ptresult
       THEN /\ ipc' = "topic_sleep"
            /\ UNCHANGED <<messages, mi, processed_messages, topics, ti>>
       ELSE BeginTopic(topics, Len(topics) + 1)
    /\ UNCHANGED thread_id
    /\ UNCHANGED <<sessionVars, loginVars, unread, trace>>
    /\ UNCHANGED otherThanInbox

\* post_thread returned: whatever it returned, asyncio.sleep(30).  (The
\* locals of post_thread are gone.)
InboxThreadReturned ==
    /\ ipc = "posting"
    /\ ptpc = "returned"
    /\ ptpc' = "idle"
    /\ tweets' = <<>>
    /\ i' = 0
    /\ previous_tweet_id' = None
    /\ ptresult' = FALSE
    /\ ipc' = "topic_sleep"
    /\ UNCHANGED <<messages, mi, processed_messages, topics, ti, thread_id>>
    /\ UNCHANGED <<sessionVars, loginVars, unread, trace>>
    /\ UNCHANGED otherThanInbox

\* The sleep between topics is over: the next topic.
InboxNextTopic ==
    /\ ipc = "topic_sleep"
    /\ BeginTopic(topics, ti + 1)
    /\ UNCHANGED <<sessionVars, loginVars, threadVars, unread, trace>>
    /\ UNCHANGED otherThanInbox


\* The positions of monitor_inbox inside "while True".
InLoop == {"poll", "msg", "topic", "posting", "topic_sleep", "sleep",
           "backoff"}

\* KeyboardInterrupt reaches the loop, from the loop body or through the
\* calls it awaits (no "except Exception" catches it): break.
InboxInterrupt ==
    /\ ipc \in InLoop
    /\ ipc' = "exited"
    /\ trace' = Append(trace, Event("interrupt", "inbox", 0, 0, None, "-",
                                    None))
    /\ messages' = <<>>
    /\ mi' = 0
    /\ topics' = <<>>
    /\ ti' = 0
    /\ tweets' = <<>>
    /\ i' = 0
    /\ previous_tweet_id' = None
    /\ ptpc' = "idle"
    /\ ptresult' = FALSE
    /\ UNCHANGED <<processed_messages, thread_id>>
    /\ UNCHANGED <<sessionVars, loginVars, unread>>
    /\ UNCHANGED otherThanInbox
\* ---------------------------------------------------------- specifications
\* The Date headers of the messages of the inbox runs: absent, unparseable,
\* the instant of start_time itself, one later and one earlier.
InboxDates == {NoDate, BadDate, Date(0, 0), Date(1, 0)}

InitSession ==
    /\ twitter_client = None
    /\ twitter_logged_in = FALSE
    /\ credentials \in BOOLEAN
    /\ lpc = [p \in Procs |-> "idle"]
    /\ lres = [p \in Procs |-> FALSE]

InitNoThread ==
    /\ tweets = <<>>
    /\ i = 0
    /\ previous_tweet_id = None
    /\ ptpc = "idle"
    /\ ptresult = FALSE
    /\ thread_id = 0

InitMentions(pc) ==
    /\ fpc = pc
    /\ follower_ids = <<>>
    /\ fu = 0
    /\ user_tweets = <<>>
    /\ ft = 0
    /\ processed_tweet_ids = {}
    /\ passes = 0

InitInboxLoop(pc) ==
    /\ ipc = pc
    /\ messages = <<>>
    /\ mi = 0
    /\ processed_messages = <<>>
    /\ topics = <<>>
    /\ ti = 0
    /\ start_time = 0

Login ==
    \E p \in Procs :
        \/ LoginSend(p)
        \/ LoginOk(p)
        \/ LoginFails(p)
        \/ VerifySend(p)
        \/ VerifyOk(p)
        \/ VerifyFails(p)
        \/ LoginGivesUp(p)

Thread ==
    \/ PostThreadStart
    \/ PostTweet
    \/ PublishOk
    \/ Cooldown
    \/ PublishParentDeleted
    \/ PublishTooLong
    \/ PublishError

\* main() from its start until both coroutines are through their first
\* twitter_login: monitor_inbox enters its polling loop, and
\* monitor_followed_tweets calls get_followers_ids or ends.
InitLogin ==
    /\ InitSession
    /\ InitNoThread
    /\ InitMentions("start")
    /\ InitInboxLoop("start")
    /\ msg_date = [m \in Msgs |-> NoDate]
    /\ payload = [m \in Msgs |-> PlainPayload]
    /\ unread = {}
    /\ trace = <<>>

NextLogin ==
    \/ InboxStart
    \/ InboxLoginReturned
    \/ MentionsStart
    \/ MentionsLoginReturned
    \/ Login

SpecLogin == InitLogin /\ [][NextLogin]_vars

\* monitor_followed_tweets on its own from its call of get_followers_ids on
\* (it got there logged in; a login of monitor_inbox that failed later may
\* have reset twitter_logged_in since).
InitMonitor ==
    /\ twitter_client = 2
    /\ twitter_logged_in \in BOOLEAN
    /\ credentials = TRUE
    /\ lpc = [p \in Procs |-> "idle"]
    /\ lres = [p \in Procs |-> FALSE]
    /\ InitNoThread
    /\ InitMentions("followers")
    /\ InitInboxLoop("poll")
    /\ msg_date = [m \in Msgs |-> NoDate]
    /\ payload = [m \in Msgs |-> PlainPayload]
    /\ unread = {}
    /\ trace = <<>>

NextMonitor ==
    \/ Login
    \/ MentionsFollowers
    \/ MentionsFollowersFail
    \/ MentionsGetTweets
    \/ MentionsGetUser
    \/ MentionsUserError
    \/ MentionsTweet
    \/ MentionsReply
    \/ MentionsReplyOk
    \/ MentionsReplyFails
    \/ MentionsReplyPause
    \/ MentionsNextPass
    \/ MentionsLoopError
    \/ MentionsReloginReturned

SpecMonitor == InitMonitor /\ [][NextMonitor]_vars

\* monitor_inbox on its own (the mention monitor has ended), with every
\* message unread from the first poll on.
InitInbox ==
    /\ InitSession
    /\ InitNoThread
    /\ InitMentions("exited")
    /\ InitInboxLoop("start")
    /\ msg_date \in [Msgs -> InboxDates]
    /\ payload = [m \in Msgs |-> PlainPayload]
    /\ unread = Msgs
    /\ trace = <<>>

\* post_thread as the inbox runs call it: the threads have at most three
\* tweets and never reach the longer break, and a create_tweet call either
\* returns or raises an error post_thread does not handle (at most MaxFaults
\* times in a run).
Faults(tr) ==
    Cardinality({k \in 1..Len(tr) : /\ IsCall(tr[k])
                                    /\ tr[k].res \notin {"ok", "pending"}})
ShortThread ==
    \/ PostThreadStart
    \/ PostTweet
    \/ PublishOk
    \/ PublishError /\ Faults(trace') <= MaxFaults

NextInbox ==
    \/ InboxStart
    \/ InboxLoginReturned
    \/ Login
    \/ InboxPoll
    \/ InboxListFails
    \/ InboxFetchFails
    \/ InboxSleep
    \/ InboxSkipProcessed
    \/ InboxMarkOld
    \/ InboxProcessFails
    \/ InboxClassify
    \/ InboxTopic
    \/ InboxThreadReturned
    \/ InboxNextTopic
    \/ ShortThread

SpecInbox == InitInbox /\ [][NextInbox]_vars

\* post_thread on its own, called once with any list of up to MaxSegs valid
\* tweets.
TweetLists == UNION {[1..n -> {MaxTweetLen}] : n \in 1..MaxSegs}

InitThread ==
    /\ twitter_client \in {None, 1}
    /\ twitter_logged_in \in BOOLEAN
    /\ twitter_client = None => ~twitter_logged_in
    /\ credentials = TRUE
    /\ lpc = [p \in Procs |-> "idle"]
    /\ lres = [p \in Procs |-> FALSE]
    /\ tweets \in TweetLists
    /\ i = 0
    /\ previous_tweet_id = None
    /\ ptpc = "entry"
    /\ ptresult = FALSE
    /\ thread_id = 0
    /\ InitMentions("exited")
    /\ InitInboxLoop("idle")
    /\ msg_date = [m \in Msgs |-> NoDate]
    /\ payload = [m \in Msgs |-> PlainPayload]
    /\ unread = {}
    /\ trace = <<>>

NextThread == Thread

SpecThread == InitThread /\ [][NextThread]_vars


\* monitor_inbox on its own after a start-up login, with any watermark and
\* any Date headers (local times 0..MaxClock written in the zones -1, 0 and
\* +1 hours), and a classifier that finds no topics.
Zones == {-1, 0, 1}
AllDates ==
    {NoDate, BadDate} \cup {Date(l, z) : l \in 0..MaxClock, z \in Zones}
StartTimes == 1..2

InitDates ==
    /\ twitter_client = 1
    /\ twitter_logged_in = TRUE
    /\ credentials = TRUE
    /\ lpc = [p \in Procs |-> "idle"]
    /\ lres = [p \in Procs |-> FALSE]
    /\ InitNoThread
    /\ InitMentions("exited")
    /\ ipc = "poll"
    /\ messages = <<>>
    /\ mi = 0
    /\ processed_messages = <<>>
    /\ topics = <<>>
    /\ ti = 0
    /\ start_time \in StartTimes
    /\ msg_date \in [Msgs -> AllDates]
    /\ payload = [m \in Msgs |-> PlainPayload]
    /\ unread = Msgs
    /\ trace = <<>>

NextDates ==
    \/ InboxPoll
    \/ InboxListFails
    \/ InboxFetchFails
    \/ InboxSleep
    \/ InboxSkipProcessed
    \/ InboxMarkOld
    \/ InboxProcessFails
    \/ InboxClassify /\ topics' = <<>>

SpecDates == InitDates /\ [][NextDates]_vars

\* create_newsletter_thread on one topic of one new message, logged in and
\* without platform errors: the generator answers with any list of up to
\* MaxSegs segments (empty, short, exactly 280 characters, longer, and longer
\* only by markup the clean-up removes), and post_thread posts the result.
SegKinds ==
    {Seg(0, 0), Seg(100, 0), Seg(MaxTweetLen, 0), Seg(MaxTweetLen + 1, 0),
     Seg(MaxTweetLen + 2, 3)}
AllResponses == UNION {[1..n -> SegKinds] : n \in 0..MaxSegs}

InitGenerate ==
    /\ twitter_client = 1
    /\ twitter_logged_in = TRUE
    /\ credentials = TRUE
    /\ lpc = [p \in Procs |-> "idle"]
    /\ lres = [p \in Procs |-> FALSE]
    /\ InitNoThread
    /\ InitMentions("exited")
    /\ ipc = "topic"
    /\ messages = ListUnread(Msgs)
    /\ mi = 1
    /\ processed_messages = <<>>
    /\ topics = <<"T1">>
    /\ ti = 1
    /\ start_time = 0
    /\ msg_date = [m \in Msgs |-> Date(1, 0)]
    /\ payload = [m \in Msgs |-> PlainPayload]
    /\ unread = Msgs
    /\ trace = <<>>

NextGenerate ==
    \/ Generate(AllResponses)
    \/ PostThreadStart
    \/ PostTweet
    \/ PublishOk
    \/ Cooldown
    \/ InboxThreadReturned
    \/ InboxNextTopic

SpecGenerate == InitGenerate /\ [][NextGenerate]_vars

\* create_newsletter_thread on the one new message of a poll, logged in: the
\* message is classified, and each topic is generated (also with a response
\* none of whose segments is valid) and posted with any of the platform's
\* errors (at most MaxFaults create_tweet calls raise).
TopicResponses ==
    Responses \cup {<<Seg(MaxTweetLen + 1, 0), Seg(0, 0)>>, <<Seg(100, 0)>>}

InitTopics ==
    /\ twitter_client = 1
    /\ twitter_logged_in = TRUE
    /\ credentials = TRUE
    /\ lpc = [p \in Procs |-> "idle"]
    /\ lres = [p \in Procs |-> FALSE]
    /\ InitNoThread
    /\ InitMentions("exited")
    /\ ipc = "msg"
    /\ messages = <<1>>
    /\ mi = 1
    /\ processed_messages = <<>>
    /\ topics = <<>>
    /\ ti = 0
    /\ start_time = 0
    /\ msg_date = [m \in Msgs |-> Date(1, 0)]
    /\ payload = [m \in Msgs |-> PlainPayload]
    /\ unread = {1}
    /\ trace = <<>>

NextTopics ==
    \/ InboxClassify
    \/ Generate(TopicResponses)
    \/ PostThreadStart
    \/ PostTweet
    \/ PublishOk
    \/ PublishParentDeleted /\ Faults(trace') <= MaxFaults
    \/ PublishTooLong /\ Faults(trace') <= MaxFaults
    \/ PublishError /\ Faults(trace') <= MaxFaults
    \/ InboxThreadReturned
    \/ InboxNextTopic

SpecTopics == InitTopics /\ [][NextTopics]_vars

\* The polling loop of monitor_inbox from its first poll on, logged in, with
\* every failure of its calls and with the interrupt of the user.  The event
\* loop resumes the coroutine whenever the call or sleep it awaits is over,
\* and every call and sleep ends: the step of the loop is weakly fair.
InitLoop ==
    /\ twitter_client = 1
    /\ twitter_logged_in = TRUE
    /\ credentials = TRUE
    /\ lpc = [p \in Procs |-> "idle"]
    /\ lres = [p \in Procs |-> FALSE]
    /\ InitNoThread
    /\ InitMentions("exited")
    /\ InitInboxLoop("poll")
    /\ msg_date \in [Msgs -> InboxDates]
    /\ payload = [m \in Msgs |-> PlainPayload]
    /\ unread = Msgs
    /\ trace = <<>>

LoopStep ==
    \/ InboxPoll
    \/ InboxListFails
    \/ InboxFetchFails
    \/ InboxSleep
    \/ InboxSkipProcessed
    \/ InboxMarkOld
    \/ InboxProcessFails
    \/ InboxClassify
    \/ InboxTopic
    \/ InboxThreadReturned
    \/ InboxNextTopic
    \/ ShortThread

NextLoop ==
    \/ LoopStep
    \/ InboxInterrupt

SpecLoop == InitLoop /\ [][NextLoop]_vars /\ WF_vars(LoopStep)

\* monitor_inbox polling an inbox with one message (new or not), logged in,
\* with a classifier that may also answer with a NEWSLETTER block whose
\* topics are not all non-empty strings (an empty string stands for any such
\* entry), or with a NOT_NEWSLETTER block that lists a topic all the same.
SchemaBreaking ==
    {Analysis(TRUE, "NEWSLETTER", TRUE, <<"">>),
     Analysis(TRUE, "NEWSLETTER", TRUE, <<"T1", "">>)}
AllAnalyses ==
    Analyses \cup SchemaBreaking
             \cup {Analysis(TRUE, "NOT_NEWSLETTER", TRUE, <<"T1">>)}

InitClassify ==
    /\ twitter_client = 1
    /\ twitter_logged_in = TRUE
    /\ credentials = TRUE
    /\ lpc = [p \in Procs |-> "idle"]
    /\ lres = [p \in Procs |-> FALSE]
    /\ InitNoThread
    /\ InitMentions("exited")
    /\ InitInboxLoop("poll")
    /\ msg_date \in {[m \in Msgs |-> d] : d \in InboxDates}
    /\ payload = [m \in Msgs |-> PlainPayload]
    /\ unread = {1}
    /\ trace = <<>>

NextClassify ==
    \/ InboxPoll
    \/ InboxFetchFails
    \/ InboxSkipProcessed
    \/ InboxMarkOld
    \/ InboxProcessFails
    \/ InboxSleep
    \/ Classify(AllAnalyses)
    \/ Generate(Responses)
    \/ ShortThread
    \/ InboxThreadReturned
    \/ InboxNextTopic

SpecClassify == InitClassify /\ [][NextClassify]_vars

\* process_message on the one new message of an inbox, with any payload of
\* up to two parts, each a leaf (text/plain with or without data, text/html,
\* an attachment) or a multipart of up to two leaves, or without parts.
Leaves ==
    {Leaf("text/plain", TRUE, <<"QQ">>), Leaf("text/plain", TRUE, <<"Qg">>),
     Leaf("text/plain", FALSE, <<>>), Leaf("text/html", TRUE, <<"Qw">>),
     Leaf("application/pdf", TRUE, <<"RA">>)}
UpToTwo(S) == {<<a>> : a \in S} \cup {<<a, b>> : a \in S, b \in S}
Parts == Leaves \cup {Multipart(ps) : ps \in UpToTwo(Leaves)}
AllPayloads == Leaves \cup {Multipart(ps) : ps \in UpToTwo(Parts)}

InitBody ==
    /\ twitter_client = 1
    /\ twitter_logged_in = TRUE
    /\ credentials = TRUE
    /\ lpc = [p \in Procs |-> "idle"]
    /\ lres = [p \in Procs |-> FALSE]
    /\ InitNoThread
    /\ InitMentions("exited")
    /\ InitInboxLoop("poll")
    /\ msg_date = [m \in Msgs |-> Date(1, 0)]
    /\ payload \in [Msgs -> AllPayloads]
    /\ \A m \in Msgs \ {1} : payload[m] = PlainPayload
    /\ unread = {1}
    /\ trace = <<>>

NextBody ==
    \/ InboxPoll
    \/ InboxProcessFails
    \/ InboxClassify /\ topics' = <<>>
    \/ InboxSkipProcessed
    \/ InboxSleep

SpecBody == InitBody /\ [][NextBody]_vars

\* post_thread on its own with lists long enough for two of the longer
\* breaks ("i % 3 == 0" at i = 3 and at i = 6).
LongSegs == MaxSegs + CooldownEvery
LongLists == UNION {[1..n -> {MaxTweetLen}] : n \in 1..LongSegs}

InitCadence ==
    /\ twitter_client = 1
    /\ twitter_logged_in = TRUE
    /\ credentials = TRUE
    /\ lpc = [p \in Procs |-> "idle"]
    /\ lres = [p \in Procs |-> FALSE]
    /\ tweets \in LongLists
    /\ i = 0
    /\ previous_tweet_id = None
    /\ ptpc = "entry"
    /\ ptresult = FALSE
    /\ thread_id = 0
    /\ InitMentions("exited")
    /\ InitInboxLoop("idle")
    /\ msg_date = [m \in Msgs |-> NoDate]
    /\ payload = [m \in Msgs |-> PlainPayload]
    /\ unread = {}
    /\ trace = <<>>

NextCadence == Thread

SpecCadence == InitCadence /\ [][NextCadence]_vars

\* main() with both coroutines in their loops, logged in: monitor_inbox
\* polls an inbox with one new message and posts its threads while
\* monitor_followed_tweets replies to mentions through the same client.
InitShared ==
    /\ twitter_client = 1
    /\ twitter_logged_in = TRUE
    /\ credentials = TRUE
    /\ lpc = [p \in Procs |-> "idle"]
    /\ lres = [p \in Procs |-> FALSE]
    /\ InitNoThread
    /\ InitMentions("followers")
    /\ InitInboxLoop("poll")
    /\ msg_date = [m \in Msgs |-> Date(1, 0)]
    /\ payload = [m \in Msgs |-> PlainPayload]
    /\ unread = {1}
    /\ trace = <<>>

NextShared ==
    \/ InboxPoll
    \/ InboxSkipProcessed
    \/ InboxSleep
    \/ InboxClassify
    \/ Generate(Responses)
    \/ ShortThread
    \/ PublishParentDeleted /\ Faults(trace') <= MaxFaults
    \/ InboxThreadReturned
    \/ InboxNextTopic
    \/ MentionsFollowers
    \/ MentionsGetTweets
    \/ MentionsGetUser
    \/ MentionsTweet
    \/ MentionsReply
    \/ MentionsReplyOk
    \/ MentionsReplyFails
    \/ MentionsReplyPause
    \/ MentionsNextPass

SpecShared == InitShared /\ [][NextShared]_vars

\* The polling loop of monitor_inbox, logged in, with an inbox in which the
\* modify call that marks a message read raises every time it is made, and
\* every other call of the loop returns.  The step of the loop is weakly
\* fair, as in SpecLoop.
MarkReadFails == InboxFetchFails /\ ~IsNew(messages[mi])

InitStuck ==
    /\ twitter_client = 1
    /\ twitter_logged_in = TRUE
    /\ credentials = TRUE
    /\ lpc = [p \in Procs |-> "idle"]
    /\ lres = [p \in Procs |-> FALSE]
    /\ InitNoThread
    /\ InitMentions("exited")
    /\ InitInboxLoop("poll")
    /\ msg_date \in [Msgs -> {Date(0, 0), Date(1, 0)}]
    /\ payload = [m \in Msgs |-> PlainPayload]
    /\ unread = Msgs
    /\ trace = <<>>

NextStuck ==
    \/ InboxPoll
    \/ InboxSleep
    \/ InboxSkipProcessed
    \/ MarkReadFails
    \/ InboxClassify
    \/ Generate(Responses)
    \/ ShortThread
    \/ InboxThreadReturned
    \/ InboxNextTopic

SpecStuck == InitStuck /\ [][NextStuck]_vars /\ WF_vars(NextStuck)

\* ----------------------------------------- email_tweet.py: topics, search
\* The topic loop of process_and_create_threads and post_thread of
\* email_tweet.py, on the variables of the topic loop and of post_thread.
\* A search ends by raising or with up to two results; search_topic returns
\* the results, or [] when anything in it raised.
Search(raised, results) == [raised |-> raised, results |-> results]
Searches ==
    {Search(TRUE, <<>>), Search(TRUE, <<"R1">>), Search(FALSE, <<>>),
     Search(FALSE, <<"R1">>), Search(FALSE, <<"R1", "R2">>)}
search_topic(s) == IF s.raised THEN <<>> ELSE s.results

\* additional_info: the results formatted, or the placeholder text.
Placeholder == <<"No additional information found.">>
additional_info(search_results) ==
    IF search_results # <<>> THEN search_results ELSE Placeholder

\* A segment of the generator's response: empty after strip() or not, and
\* with or without the thread mark; the tweets made of a response (the
\* non-empty segments, with the thread starter put in front when no tweet
\* has the mark); and the text post_thread sends for tweet number k (from 0)
\* of n.
Piece(empty, mark) == [empty |-> empty, mark |-> mark, suffix |-> "none"]
Starter == Piece(FALSE, TRUE)
Threads ==
    {<<>>, <<Piece(FALSE, TRUE)>>, <<Piece(FALSE, FALSE)>>,
     <<Piece(FALSE, FALSE), Piece(TRUE, FALSE), Piece(FALSE, TRUE)>>}
NotEmpty(piece) == ~piece.empty
thread_tweets(response) ==
    LET kept == SelectSeq(response, NotEmpty)
    IN  IF \E k \in 1..Len(kept) : kept[k].mark THEN kept
        ELSE <<Starter>> \o kept
Sent(tweet, k, n) ==
    IF k > 0 /\ k < n - 1 THEN [tweet EXCEPT !.suffix = "more"]
    ELSE IF k = n - 1 THEN [tweet EXCEPT !.suffix = "end"]
    ELSE tweet

otherThanTopics ==
    <<sessionVars, loginVars, mentionVars, mailVars, messages, mi,
      processed_messages, thread_id>>

\* "for topic in topics" reaches position k, or the function returns.
EtBeginTopic(k) ==
    IF k <= Len(topics)
    THEN ipc' = "topic" /\ ti' = k
    ELSE ipc' = "idle" /\ ti' = 0

\* Mutant of EtTopic: an exception of the search ends the topic (the
\* handler of the topic loop catches it).
EtTopic_SearchPropagates ==
    /\ ipc = "topic"
    /\ \E s \in Searches, raised \in BOOLEAN, response \in Threads :
        IF s.raised
        THEN /\ trace' = Append(trace,
                    [Event("search", "inbox", 0, 0, None, "error", None)
                        EXCEPT !.segs = <<>>])
             /\ EtBeginTopic(ti + 1)
             /\ UNCHANGED <<tweets, ptpc>>
        ELSE /\ trace' = trace \o
                <<[Event("search", "inbox", 0, 0, None, "ok", None)
                     EXCEPT !.segs = search_topic(s)],
                  [Event("generate", "inbox", 0, 0, None,
                         IF raised THEN "error" ELSE "ok", None)
                     EXCEPT !.content = additional_info(search_topic(s)),
                            !.segs = IF raised THEN <<>> ELSE response]>>
             /\ IF raised
                THEN /\ EtBeginTopic(ti + 1)
                     /\ UNCHANGED <<tweets, ptpc>>
                ELSE /\ tweets' = thread_tweets(response)
                     /\ ptpc' = "entry"
                     /\ ipc' = "posting"
                     /\ ti' = ti
    /\ UNCHANGED <<topics, i, previous_tweet_id, ptresult>>
    /\ UNCHANGED otherThanTopics

\* One topic up to "await self.post_thread(tweets)": search_topic, the
\* prompt with additional_info, generate_content (which may raise: the
\* handler of the loop continues with the next topic), the tweets.
EtTopic ==
    /\ ipc = "topic"
    /\ \E s \in Searches, raised \in BOOLEAN, response \in Threads :
        /\ trace' = trace \o
            <<[Event("search", "inbox", 0, 0, None,
                     IF s.raised THEN "error" ELSE "ok", None)
                 EXCEPT !.segs = search_topic(s)],
              [Event("generate", "inbox", 0, 0, None,
                     IF raised THEN "error" ELSE "ok", None)
                 EXCEPT !.content = additional_info(search_topic(s)),
                        !.segs = IF raised THEN <<>> ELSE response]>>
        /\ IF raised
           THEN /\ EtBeginTopic(ti + 1)
                /\ UNCHANGED <<tweets, ptpc>>
           ELSE /\ tweets' = thread_tweets(response)
                /\ ptpc' = "entry"
                /\ ipc' = "posting"
                /\ ti' = ti
    /\ UNCHANGED <<topics, i, previous_tweet_id, ptresult>>
    /\ UNCHANGED otherThanTopics

\* post_thread of email_tweet.py from its start, or after the 2 s sleep, up
\* to the create_tweet call of the next tweet; "return True" after the last.
EtPostTweet ==
    /\ ipc = "posting"
    /\ ptpc \in {"entry", "pause"}
    /\ LET k == IF ptpc = "entry" THEN 0 ELSE i + 1
           prev == IF ptpc = "entry" THEN None ELSE previous_tweet_id
       IN  /\ i' = k
           /\ previous_tweet_id' = prev
           /\ IF k < Len(tweets)
              THEN /\ trace' = Append(trace,
                        [Event("call", "thread", thread_id, k, prev,
                               "pending", None)
                           EXCEPT !.text = Sent(tweets[k + 1], k,
                                                Len(tweets))])
                   /\ ptpc' = "call"
                   /\ ptresult' = ptresult
              ELSE /\ trace' = trace
                   /\ ptpc' = "returned"
                   /\ ptresult' = TRUE
    /\ UNCHANGED <<ipc, topics, ti, tweets>>
    /\ UNCHANGED otherThanTopics

\* create_tweet returned: previous_tweet_id = response.id, asyncio.sleep(2).
EtPublishOk ==
    /\ ipc = "posting"
    /\ ptpc = "call"
    /\ LET id == NewPostId(trace) IN
        /\ trace' = Complete(trace, PendingCall(trace, "thread"), "ok", id)
        /\ previous_tweet_id' = id
    /\ ptpc' = "pause"
    /\ UNCHANGED <<ipc, topics, ti, tweets, i, ptresult>>
    /\ UNCHANGED otherThanTopics

\* create_tweet raised: "return False".
EtPublishFails ==
    /\ ipc = "posting"
    /\ ptpc = "call"
    /\ trace' = Complete(trace, PendingCall(trace, "thread"), "other", None)
    /\ ptpc' = "returned"
    /\ ptresult' = FALSE
    /\ UNCHANGED <<ipc, topics, ti, tweets, i, previous_tweet_id>>
    /\ UNCHANGED otherThanTopics

\* post_thread returned and the 30 s sleep is over: the next topic.
EtNextTopic ==
    /\ ipc = "posting"
    /\ ptpc = "returned"
    /\ ptpc' = "idle"
    /\ tweets' = <<>>
    /\ i' = 0
    /\ previous_tweet_id' = None
    /\ ptresult' = FALSE
    /\ EtBeginTopic(ti + 1)
    /\ UNCHANGED <<topics, trace>>
    /\ UNCHANGED otherThanTopics

\* process_and_create_threads on a newsletter of one or two topics.
InitSearch ==
    /\ twitter_client = 1
    /\ twitter_logged_in = TRUE
    /\ credentials = TRUE
    /\ lpc = [p \in Procs |-> "idle"]
    /\ lres = [p \in Procs |-> FALSE]
    /\ InitNoThread
    /\ InitMentions("exited")
    /\ ipc = "topic"
    /\ messages = <<1>>
    /\ mi = 1
    /\ processed_messages = <<>>
    /\ topics \in TopicLists \ {<<>>}
    /\ ti = 1
    /\ start_time = 0
    /\ msg_date = [m \in Msgs |-> Date(1, 0)]
    /\ payload = [m \in Msgs |-> PlainPayload]
    /\ unread = {1}
    /\ trace = <<>>

NextSearch ==
    \/ EtTopic
    \/ EtPostTweet
    \/ EtPublishOk
    \/ EtPublishFails
    \/ EtNextTopic

SpecSearch == InitSearch /\ [][NextSearch]_vars

\* ------------------------------------ twikit_hello.py: run_mention_monitor
\* SimpleTwitterBot of twikit_hello.py, logged in.  The mention loop uses
\* fpc, user_tweets (the notifications of the poll), ft and passes; its
\* create_tweet calls are recorded as calls by "mentions".
Mention2 == [id |-> -3, mention |-> TRUE]

\* What get_notifications(type="Mentions") returns: the platform lists a
\* mention for as long as it likes, also one that was replied to.
NotificationLists == {<<>>, <<Mention>>, <<Mention2>>, <<Mention, Mention2>>}

otherThanHello ==
    <<sessionVars, loginVars, threadVars, inboxVars, mailVars, follower_ids,
      fu, processed_tweet_ids>>

\* create_tweet(text=response, reply_to=mention.tweet.id) for the mention at
\* position k of list.
HelloReplyCall(tr, list, k) ==
    Append(tr, Event("call", "mentions", 0, k, list[k].id, "pending", None))

\* check_mentions up to its first create_tweet: get_notifications returned,
\* and the reply to the first mention is sent; without mentions the
\* function returns and run_mention_monitor sleeps.
HelloPoll ==
    /\ fpc = "poll"
    /\ \E list \in NotificationLists :
        /\ user_tweets' = list
        /\ IF list # <<>>
           THEN /\ fpc' = "reply"
                /\ ft' = 1
                /\ trace' = HelloReplyCall(trace, list, 1)
           ELSE /\ fpc' = "sleep"
                /\ ft' = 0
                /\ trace' = trace
    /\ UNCHANGED passes
    /\ UNCHANGED otherThanHello

\* get_notifications raised: the handler of check_mentions prints the
\* error, and run_mention_monitor sleeps.
HelloPollFails ==
    /\ fpc = "poll"
    /\ fpc' = "sleep"
    /\ UNCHANGED <<user_tweets, ft, passes, trace>>
    /\ UNCHANGED otherThanHello

\* The reply was posted: the reply to the next mention of the list is sent,
\* or check_mentions returns.
HelloReplyOk ==
    /\ fpc = "reply"
    /\ LET done == Complete(trace, PendingCall(trace, "mentions"), "ok",
                            NewPostId(trace))
       IN  IF ft < Len(user_tweets)
           THEN /\ trace' = HelloReplyCall(done, user_tweets, ft + 1)
                /\ ft' = ft + 1
                /\ fpc' = "reply"
           ELSE /\ trace' = done
                /\ ft' = 0
                /\ fpc' = "sleep"
    /\ UNCHANGED <<user_tweets, passes>>
    /\ UNCHANGED otherThanHello

\* The reply raised: the handler of check_mentions ends the function, the
\* remaining mentions of the poll are left.
HelloReplyFails ==
    /\ fpc = "reply"
    /\ trace' = Complete(trace, PendingCall(trace, "mentions"), "other", None)
    /\ ft' = 0
    /\ fpc' = "sleep"
    /\ UNCHANGED <<user_tweets, passes>>
    /\ UNCHANGED otherThanHello

\* asyncio.sleep(check_interval) is over: the next check_mentions.
HelloSleep ==
    /\ fpc = "sleep"
    /\ passes < MaxPasses
    /\ passes' = passes + 1
    /\ fpc' = "poll"
    /\ user_tweets' = <<>>
    /\ UNCHANGED <<ft, trace>>
    /\ UNCHANGED otherThanHello

InitHello ==
    /\ twitter_client = 1
    /\ twitter_logged_in = TRUE
    /\ credentials = TRUE
    /\ lpc = [p \in Procs |-> "idle"]
    /\ lres = [p \in Procs |-> FALSE]
    /\ InitNoThread
    /\ InitMentions("poll")
    /\ InitInboxLoop("idle")
    /\ msg_date = [m \in Msgs |-> NoDate]
    /\ payload = [m \in Msgs |-> PlainPayload]
    /\ unread = {}
    /\ trace = <<>>

NextHello ==
    \/ HelloPoll
    \/ HelloPollFails
    \/ HelloReplyOk
    \/ HelloReplyFails
    \/ HelloSleep

SpecHello == InitHello /\ [][NextHello]_vars
\* ------------------------------------------- properties of post_thread
Max(S) == CHOOSE x \in S : \A y \in S : y <= x

\* The create_tweet calls of post_thread call number th, as trace indices.
ThreadCalls(tr, th) ==
    {k \in 1..Len(tr) : IsCall(tr[k]) /\ tr[k].by = "thread" /\ tr[k].th = th}
AllThreadCalls(tr) ==
    {k \in 1..Len(tr) : IsCall(tr[k]) /\ tr[k].by = "thread"}

\* The id returned by the most recent successful publish of the same thread
\* before trace index k; None when the thread has published nothing yet.
LastOkBefore(tr, k) ==
    LET S == {n \in ThreadCalls(tr, tr[k].th) : n < k /\ IsPost(tr[n])}
    IN  IF S = {} THEN None ELSE tr[Max(S)].id

\* The call before k of the same thread; 0 when k is its first call.
PrevCall(tr, k) ==
    LET S == {n \in ThreadCalls(tr, tr[k].th) : n < k}
    IN  IF S = {} THEN 0 ELSE Max(S)

\* The call after k of the same thread; 0 when k is its last call so far.
NextCall(tr, k) ==
    LET S == {n \in ThreadCalls(tr, tr[k].th) : n > k}
    IN  IF S = {} THEN 0 ELSE CHOOSE n \in S : \A m \in S : n <= m

\* k is the top-level retry of chain repair: the call before it was a reply
\* with the same tweet that failed as "deleted or not visible".
IsRepairRetry(tr, k) ==
    LET p == PrevCall(tr, k)
    IN  /\ p # 0
        /\ tr[k].reply_to = None
        /\ tr[p].seg = tr[k].seg
        /\ tr[p].res = "deleted"
        /\ tr[p].reply_to # None

\* The tweets are attempted in index order, and a call is issued only after
\* every earlier call of the thread has returned.
InOrder(tr) ==
    \A k, n \in AllThreadCalls(tr) :
        (tr[k].th = tr[n].th /\ k < n) =>
            /\ tr[k].seg <= tr[n].seg
            /\ tr[k].res # "pending"

\* C3 as stated: the tweets are attempted strictly in index order, one call
\* at a time, and every publish call of a thread is a reply to the id of the
\* most recent successful publish of that thread, top-level only when the
\* thread has published nothing yet.
C3_AsStated ==
    /\ InOrder(trace)
    /\ \A k \in AllThreadCalls(trace) :
        trace[k].reply_to = LastOkBefore(trace, k)

\* C3 amended: as C3, except that the retry of chain repair is a top-level
\* post although the thread has published before; the first call for each
\* tweet is still a reply to the most recent successful publish.
C3_SequentialChain ==
    /\ InOrder(trace)
    /\ \A k \in AllThreadCalls(trace) :
        \/ trace[k].reply_to = LastOkBefore(trace, k)
        \/ IsRepairRetry(trace, k)
    /\ \A k \in AllThreadCalls(trace) :
        (PrevCall(trace, k) = 0 \/ trace[PrevCall(trace, k)].seg # trace[k].seg)
            => trace[k].reply_to = LastOkBefore(trace, k)

\* A thread of three posts, each a reply to the one before.
C3_Witness ==
    /\ ptpc = "returned" /\ ptresult
    /\ \E k \in AllThreadCalls(trace) :
        /\ trace[k].seg = 2 /\ IsPost(trace[k])
        /\ trace[k].reply_to # None
        /\ trace[PrevCall(trace, k)].seg = 1
        /\ trace[PrevCall(trace, k)].id = trace[k].reply_to
        /\ trace[PrevCall(trace, k)].reply_to # None

\* C4: a reply that fails as "deleted or not visible" is followed at once by
\* exactly one retry of the same tweet as a top-level post (no tweet is ever
\* called a third time); when the retry succeeds the next tweet replies to
\* the new post, no post is removed, and post_thread returns True unless a
\* call raised an error that is not repaired or skipped.
Repaired(tr, k) ==
    /\ tr[k].res = "deleted"
    /\ tr[k].reply_to # None
Unhandled(tr, k) ==
    \/ tr[k].res = "other"
    \/ tr[k].res = "deleted" /\ tr[k].reply_to = None
C4_RepairState ==
    /\ \A k \in AllThreadCalls(trace) :
        Repaired(trace, k) =>
            /\ k < Len(trace)
            /\ NextCall(trace, k) = k + 1
            /\ trace[k + 1].seg = trace[k].seg
            /\ trace[k + 1].reply_to = None
            /\ (IsPost(trace[k + 1]) /\ NextCall(trace, k + 1) # 0) =>
                 trace[NextCall(trace, k + 1)].reply_to = trace[k + 1].id
    /\ \A k, n \in AllThreadCalls(trace) :
        (trace[k].th = trace[n].th /\ k < n /\ trace[k].seg = trace[n].seg)
            => (n = k + 1 /\ Repaired(trace, k))
    /\ (/\ ptpc = "returned"
        /\ twitter_client # None
        /\ \A k \in ThreadCalls(trace, thread_id) : ~Unhandled(trace, k))
            => ptresult
PostsKept == PostIds(trace) \subseteq PostIds(trace')
C4_ChainRepair == []C4_RepairState /\ [][PostsKept]_vars

\* The parent of the second tweet was deleted: the tweet went out top-level,
\* the third tweet replied to it, and post_thread returned True.
C4_Witness ==
    /\ ptpc = "returned" /\ ptresult
    /\ \E k \in AllThreadCalls(trace) :
        /\ Repaired(trace, k)
        /\ trace[k].seg = 1
        /\ IsPost(trace[k + 1])
        /\ NextCall(trace, k + 1) # 0
        /\ IsPost(trace[NextCall(trace, k + 1)])
        /\ Cardinality(PostIds(trace)) = 3

\* C5: a call that fails as "Tweet needs to be shorter" skips the tweet:
\* the tweet is never called again, the thread goes on (to the next tweet,
\* or to "return True" after the last one), and the next call is for the
\* next tweet with the last successfully published id as parent (top-level
\* if nothing was published yet).
C5_SkipTooLong ==
    \A k \in AllThreadCalls(trace) :
        trace[k].res = "too_long" =>
            /\ \A n \in ThreadCalls(trace, trace[k].th) :
                n > k => trace[n].seg # trace[k].seg
            /\ NextCall(trace, k) # 0 =>
                LET n == NextCall(trace, k) IN
                    /\ trace[n].seg = trace[k].seg + 1
                    /\ trace[n].reply_to = LastOkBefore(trace, k)
            /\ (NextCall(trace, k) = 0 /\ trace[k].th = thread_id) =>
                IF trace[k].seg + 1 < Len(tweets)
                THEN ptpc = "delay" /\ i = trace[k].seg + 1
                ELSE ptpc = "returned" /\ ptresult

\* The second tweet was rejected as too long and the third one was posted
\* as a reply to the first.
C5_Witness ==
    \E k \in AllThreadCalls(trace) :
        /\ trace[k].res = "too_long"
        /\ trace[k].seg = 1
        /\ trace[k].reply_to # None
        /\ NextCall(trace, k) # 0
        /\ IsPost(trace[NextCall(trace, k)])
        /\ trace[NextCall(trace, k)].reply_to = trace[k].reply_to

\* C6: after a publish error that is neither "deleted or not visible" nor
\* "Tweet needs to be shorter" (also when the repair retry raised it) the
\* thread makes no further publish call and post_thread returns False; no
\* post already published is removed.
C6_AbortState ==
    \A k \in AllThreadCalls(trace) :
        trace[k].res = "other" =>
            /\ NextCall(trace, k) = 0
            /\ trace[k].th = thread_id => (ptpc = "returned" /\ ~ptresult)
C6_AbortOnOtherError == []C6_AbortState /\ [][PostsKept]_vars

\* The repair retry of the third tweet raised another error after two posts.
C6_Witness ==
    \E k \in AllThreadCalls(trace) :
        /\ trace[k].res = "other"
        /\ IsRepairRetry(trace, k)
        /\ Cardinality(PostIds(trace)) = 2
        /\ k < Len(trace) \/ Len(tweets) > trace[k].seg + 1

\* C7: with an initialized client, post_thread returns True exactly when
\* every tweet was published or skipped, and False exactly when some call
\* raised an error that was neither repaired nor skipped.
Published(tr, th, seg) ==
    \E k \in ThreadCalls(tr, th) : tr[k].seg = seg /\ IsPost(tr[k])
Skipped(tr, th, seg) ==
    \E k \in ThreadCalls(tr, th) : tr[k].seg = seg /\ tr[k].res = "too_long"
C7_ResultOfThread ==
    (ptpc = "returned" /\ twitter_client # None) =>
        /\ ptresult <=> \A seg \in 0..(Len(tweets) - 1) :
                            \/ Published(trace, thread_id, seg)
                            \/ Skipped(trace, thread_id, seg)
        /\ ~ptresult <=> \E k \in ThreadCalls(trace, thread_id) :
                            Unhandled(trace, k)

\* Every tweet of a thread of three was skipped: no post, and True.
C7_Witness ==
    /\ ptpc = "returned" /\ ptresult
    /\ Len(tweets) = 3
    /\ PostIds(trace) = {}
    /\ \A seg \in 0..2 : Skipped(trace, thread_id, seg)


\* ------------------------------------------- properties: inbox and session
Idx(tr) == 1..Len(tr)

\* The classify calls made for message m, the generate calls made for it,
\* and the create_tweet calls post_thread made for it.
Classified(tr, m) ==
    {k \in Idx(tr) : tr[k].kind = "classify" /\ tr[k].item = m}
Generated(tr, m) ==
    {k \in Idx(tr) : tr[k].kind = "generate" /\ tr[k].item = m}
PublishedFor(tr, m) ==
    {k \in Idx(tr) : IsCall(tr[k]) /\ tr[k].by = "thread" /\ tr[k].item = m}

\* monitor_inbox is past the dedup check with message m.
Handling(m) ==
    /\ ipc \in {"topic", "posting", "topic_sleep"}
    /\ messages[mi] = m

\* C1: over any number of polls each message id goes through the
\* side-effecting steps at most once: it is classified at most once, each of
\* its topics is generated at most once and posted by at most one call of
\* post_thread, and an id recorded in processed_messages is never handled
\* again, however often a later poll lists it.
C1_AtMostOnce ==
    \A m \in Msgs :
        /\ Cardinality(Classified(trace, m)) <= 1
        /\ \A j, k \in Generated(trace, m) :
            j # k => trace[j].topic # trace[k].topic
        /\ \A j, k \in PublishedFor(trace, m) :
            trace[j].topic = trace[k].topic => trace[j].th = trace[k].th
        /\ AlreadyProcessed(m) => ~Handling(m)

\* C1 witness: a poll lists two recorded ids again; the one recorded first
\* (for which a thread was posted) was skipped and the second is about to be.
C1_Witness ==
    /\ ipc = "msg"
    /\ mi = 2
    /\ processed_messages = <<messages[1], messages[2]>>
    /\ Classified(trace, messages[1]) # {}
    /\ Classified(trace, messages[2]) # {}
    /\ \E k \in PublishedFor(trace, messages[1]) : trace[k].res = "ok"

\* The calls to the platform's login and verification in flight.
HandshakesInFlight(tr) ==
    {k \in Idx(tr) : /\ tr[k].kind \in {"login", "verify"}
                     /\ tr[k].res = "pending"}

\* C2, as the specification states it: at most one login handshake is in
\* flight at any time (a caller arriving during an attempt waits for it).
C2_SingleFlight == Cardinality(HandshakesInFlight(trace)) <= 1

\* The last thing twitter_login did for caller p.
LoginEvents(tr, p) ==
    {k \in Idx(tr) : /\ tr[k].by = p
                     /\ tr[k].kind \in {"twitter_login", "login", "verify"}}
LastLoginEvent(tr, p) == tr[Max(LoginEvents(tr, p))]

\* Event k is a verification that returned, made after the login call of the
\* same twitter_login call returned.
Verified(tr, k) ==
    /\ tr[k].kind = "verify"
    /\ tr[k].res = "ok"
    /\ \E j \in 1..(k - 1) :
        /\ tr[j].kind = "login"
        /\ tr[j].by = tr[k].by
        /\ tr[j].res = "ok"
        /\ \A n \in (j + 1)..(k - 1) :
            tr[n].by = tr[k].by => tr[n].kind = "verify"

\* twitter_login of p ended well: its verification returned, or the session
\* was logged in when it was called.
Succeeded(tr, p) ==
    LET e == LastLoginEvent(tr, p)
    IN  \/ e.kind = "verify" /\ e.res = "ok"
        \/ e.kind = "twitter_login" /\ e.res = "already"

C8_State ==
    /\ twitter_logged_in => \E k \in Idx(trace) : Verified(trace, k)
    /\ \A p \in Procs :
        lpc[p] = "returned" => (lres[p] <=> Succeeded(trace, p))

C8_Step ==
    /\ (twitter_logged_in' /\ ~twitter_logged_in) =>
        \E p \in Procs :
            /\ lpc[p] = "verify"
            /\ Verified(trace', PendingCall(trace, p))
    /\ \A p \in Procs :
        (/\ lpc[p] \in {"login", "verify"}
         /\ lpc'[p] # lpc[p]
         /\ trace'[PendingCall(trace, p)].res = "error") =>
            /\ ~twitter_logged_in'
            /\ lpc'[p] \in {"failsleep", "returned"}
            /\ lpc'[p] = "returned" => ~lres'[p]

\* C8: twitter_logged_in is set only by the step in which the verification
\* call returns, after the login call of the same attempt returned; a login
\* or verification call that raises leaves twitter_logged_in False, and a
\* twitter_login call returns True exactly when it ended well.
C8_VerifiedLogin == []C8_State /\ [][C8_Step]_vars

\* C8 witness: one caller's verification returned and it got True, the
\* other's verification raised after its login returned and it got False,
\* leaving the session not logged in.
C8_Witness ==
    \E p, q \in Procs :
        /\ lpc[p] = "returned" /\ lres[p]
        /\ LastLoginEvent(trace, p).kind = "verify"
        /\ lpc[q] = "returned" /\ ~lres[q]
        /\ LastLoginEvent(trace, q).kind = "verify"
        /\ LastLoginEvent(trace, q).res = "error"
        /\ ~twitter_logged_in

\* C9, as the specification states it: the inbox loop makes no create_tweet
\* call while the session is not logged in.
C9_NoPublishUnauthenticated ==
    \A k \in Idx(trace) :
        (IsCall(trace[k]) /\ trace[k].by = "thread") => trace[k].auth

\* C10, as the specification states it: the twitter_login call the loop of
\* the mention monitor makes after a pass failed with an authentication
\* error finds the session no longer logged in and does a fresh handshake
\* (it never returns at once as already logged in).
C10_Reauthenticates ==
    \A k \in Idx(trace) :
        (trace[k].kind = "twitter_login" /\ trace[k].seg > 0) =>
            trace[k].res = "handshake"

\* ----------------------------------------- properties: twitter_login again
\* The twitter_login calls made while the session was logged in.
CallsWhileLoggedIn(tr) ==
    {k \in Idx(tr) : tr[k].kind = "twitter_login" /\ tr[k].auth}

\* What comes after event k of caller p up to p's next twitter_login call.
SameCall(tr, k) ==
    {n \in (k + 1)..Len(tr) :
        /\ tr[n].by = tr[k].by
        /\ \A j \in (k + 1)..n : ~(tr[j].by = tr[k].by
                                   /\ tr[j].kind = "twitter_login")}

C11_State ==
    \A k \in CallsWhileLoggedIn(trace) :
        /\ trace[k].res = "already"
        /\ \A n \in SameCall(trace, k) :
            trace[n].kind \notin {"login", "verify"}

\* A step in which twitter_login is called.
LoginCalled(p) ==
    /\ Len(trace') = Len(trace) + 1
    /\ trace'[Len(trace')].kind = "twitter_login"
    /\ trace'[Len(trace')].by = p

C11_Step ==
    \A p \in Procs :
        (LoginCalled(p) /\ twitter_logged_in) =>
            /\ UNCHANGED sessionVars
            /\ lpc'[p] = "returned"
            /\ lres'[p] = TRUE

\* C11: twitter_login called while twitter_logged_in is True makes no login
\* and no verification call, keeps the client object and the session state,
\* and returns True at once, every time it is called.
C11_NoOpWhenLoggedIn == []C11_State /\ [][C11_Step]_vars

\* C11 witness: the handler of the mention loop called twitter_login twice
\* while logged in; the second call has just returned.
C11_Witness ==
    /\ Cardinality(CallsWhileLoggedIn(trace)) >= 2
    /\ lpc["mentions"] = "returned"
    /\ lres["mentions"]
    /\ twitter_logged_in

\* ------------------------------------------------ properties: the watermark
\* The instant a Date header denotes, in UTC: its local time less the offset
\* of its zone.
Instant(d) == d.local - d.off

\* The messages for which a call of the given kind was made.
ItemsOf(tr, kind) ==
    {tr[k].item : k \in {n \in Idx(tr) : tr[n].kind = kind}}

C12_State ==
    /\ \A m \in Msgs :
        msg_date[m].kind = "date" =>
            (is_new_email(msg_date[m]) <=> Instant(msg_date[m]) > start_time)
    /\ \A m, n \in Msgs :
        (/\ msg_date[m].kind = "date"
         /\ msg_date[n].kind = "date"
         /\ Instant(msg_date[m]) = Instant(msg_date[n])) =>
            (IsNew(m) <=> IsNew(n))
    /\ \A m \in ItemsOf(trace, "classify") :
        msg_date[m].kind = "date" /\ Instant(msg_date[m]) > start_time
    /\ \A m \in ItemsOf(trace, "mark_read") :
        msg_date[m].kind = "date" => Instant(msg_date[m]) <= start_time

\* C12: start_time is never assigned after construction, and is_new_email
\* holds of a parsed date exactly when the instant it denotes is later than
\* start_time, in whatever zone the date is written: the loop classifies
\* only messages later than start_time and treats every message at or before
\* it as old.
C12_Watermark == []C12_State /\ [][start_time' = start_time]_vars

\* C12 witness: two messages written in different zones denote the instant
\* of start_time itself, and both were marked read as old.
C12_Witness ==
    \E m, n \in Msgs :
        /\ msg_date[m].kind = "date" /\ msg_date[n].kind = "date"
        /\ msg_date[m].off # msg_date[n].off
        /\ Instant(msg_date[m]) = start_time
        /\ Instant(msg_date[n]) = start_time
        /\ {m, n} \subseteq ItemsOf(trace, "mark_read")
        /\ unread \cap {m, n} = {}

\* ------------------------------------------- properties: not-new messages
\* The Date header of m is missing or does not parse.
Undated(m) == msg_date[m].kind # "date"

\* The messages of the current poll the loop is through with.
Passed ==
    IF ipc \in {"msg", "topic", "posting", "topic_sleep"}
    THEN {messages[k] : k \in 1..(mi - 1)}
    ELSE {}

\* C13: a message whose Date header is missing or does not parse is never
\* classified, generated for or published and never recorded as processed;
\* the loop marks it read when it reaches it (the only way it stops being
\* unread).
C13_UndatedIsOld ==
    \A m \in Msgs :
        Undated(m) =>
            /\ Classified(trace, m) = {}
            /\ Generated(trace, m) = {}
            /\ PublishedFor(trace, m) = {}
            /\ ~Handling(m)
            /\ ~AlreadyProcessed(m)
            /\ m \in Passed => m \notin unread
            /\ m \notin unread => m \in ItemsOf(trace, "mark_read")

\* C13 witness: one message without Date header and one with a header that
\* does not parse have both been marked read.
C13_Witness ==
    \E m, n \in Msgs :
        /\ msg_date[m] = NoDate
        /\ msg_date[n] = BadDate
        /\ {m, n} \subseteq ItemsOf(trace, "mark_read")
        /\ unread \cap {m, n} = {}

\* C14: the UNREAD label is removed only from messages that are not new, and
\* from every such message the loop gets past in a poll; a new message keeps
\* the label, whether it was processed, failed in process_message, or had a
\* thread that failed.
C14_MarkReadOnlyOld ==
    /\ \A m \in ItemsOf(trace, "mark_read") : ~IsNew(m)
    /\ \A m \in Msgs :
        /\ IsNew(m) => m \in unread
        /\ (m \in Passed /\ ~IsNew(m)) => m \notin unread
        /\ m \notin unread => m \in ItemsOf(trace, "mark_read")

\* C14 witness: an old message was marked read, and a new one whose thread
\* failed is recorded as processed and still unread.
C14_Witness ==
    \E m, n \in Msgs :
        /\ ~IsNew(m) /\ m \notin unread
        /\ m \in ItemsOf(trace, "mark_read")
        /\ IsNew(n) /\ AlreadyProcessed(n) /\ n \in unread
        /\ \E k \in PublishedFor(trace, n) : trace[k].res = "other"

\* ------------------------------------------------- properties: the ledger
\* monitor_inbox is suspended in an await of create_newsletter_thread (the
\* sleeps and calls of post_thread, the sleep between topics) with message m,
\* which passed the dedup check of this poll.
AwaitingWith(m) ==
    /\ \/ ipc = "topic_sleep"
       \/ ipc = "posting" /\ ptpc \notin {"idle", "entry", "returned"}
    /\ messages[mi] = m

\* C15, as the specification states it: checking an id against the ledger
\* and recording it is one atomic step, so whenever the coroutine is
\* suspended an id that passed the check is in processed_messages.
C15_AtomicCheckAndRecord ==
    \A m \in Msgs : AwaitingWith(m) => AlreadyProcessed(m)

\* Sequence s is an initial part of sequence t.
IsPrefix(s, t) ==
    /\ Len(s) <= Len(t)
    /\ \A k \in 1..Len(s) : s[k] = t[k]

\* Every message whose handling is over (it was classified and the loop has
\* left it) is in processed_messages, once.
C16_State ==
    /\ \A m \in Msgs :
        (Classified(trace, m) # {} /\ ~(ipc = "msg" /\ messages[mi] = m)
            /\ ~Handling(m)) => AlreadyProcessed(m)
    /\ \A j, k \in 1..Len(processed_messages) :
        processed_messages[j] = processed_messages[k] => j = k

\* C16: processed_messages only grows: every step keeps the ids recorded so
\* far, in place, and a recorded id stays recorded for the rest of the run.
C16_AppendOnly ==
    []C16_State /\ [][IsPrefix(processed_messages, processed_messages')]_vars

\* C16 witness: two ids are recorded and a later poll has started.
C16_Witness ==
    /\ Len(processed_messages) = 2
    /\ ipc = "msg"
    /\ mi = 1
    /\ AlreadyProcessed(messages[1])

\* ----------------------------------- properties: generation and validation
\* The segments create_topic_thread keeps: not empty and, once cleaned, at
\* most 280 characters; and the texts it returns for them, in order.
Keeps(s) == s.len # 0 /\ clean_tweet(s) <= MaxTweetLen
Survivors(segs) ==
    LET kept == SelectSeq(segs, Keeps)
    IN  [k \in 1..Len(kept) |-> clean_tweet(kept[k])]

\* The same by the length of the segment as generated, each survivor posted
\* as it was generated.
KeepsAsGenerated(s) == s.len # 0 /\ s.len <= MaxTweetLen
SurvivorsAsGenerated(segs) ==
    LET kept == SelectSeq(segs, KeepsAsGenerated)
    IN  [k \in 1..Len(kept) |-> kept[k].len]

\* The create_tweet calls of post_thread so far, in the order made.
IsThreadCall(e) == IsCall(e) /\ e.by = "thread"
Chain(tr) == SelectSeq(tr, IsThreadCall)

\* The thread of the topic is over.
ThreadOver == ptpc = "returned" \/ ipc \notin {"topic", "posting"}

\* The calls made are the texts of want, in order and each a reply to the
\* post before; when the thread is over every text of want was posted.
ChainIs(want) ==
    LET chain == Chain(trace) IN
    /\ Len(chain) <= Len(want)
    /\ \A k \in 1..Len(chain) :
        /\ chain[k].text = want[k]
        /\ chain[k].reply_to = IF k = 1 THEN None ELSE chain[k - 1].id
    /\ ThreadOver =>
        /\ Len(chain) = Len(want)
        /\ \A k \in 1..Len(chain) : IsPost(chain[k])

\* The responses of the generator so far.
Generations(tr) == {k \in Idx(tr) : tr[k].kind = "generate"}

\* C17 as stated: the segments longer than 280 characters as generated are
\* dropped, and without platform errors the chain posted is exactly the other
\* (non-empty) segments in their order, each replying to the one before.
C17_AsStated ==
    \A g \in Generations(trace) :
        ChainIs(SurvivorsAsGenerated(trace[g].segs))

\* C17 amended: the length that counts is that of the segment after the
\* clean-up of markup, and the cleaned text is what is posted: a segment is
\* dropped whole when its cleaned text exceeds 280 characters, never cut,
\* and the chain posted is the cleaned survivors in order, each a reply to
\* the one before.
C17_SurvivorsChain ==
    \A g \in Generations(trace) :
        /\ valid_tweets(trace[g].segs) = Survivors(trace[g].segs)
        /\ ipc = "posting" => tweets = Survivors(trace[g].segs)
        /\ ChainIs(Survivors(trace[g].segs))

\* C17 witness: of the segments [281 characters, 100, 280] the first was
\* dropped and the other two were posted, the second replying to the first.
C17_Witness ==
    /\ ThreadOver
    /\ \E g \in Generations(trace) :
        trace[g].segs = <<Seg(MaxTweetLen + 1, 0), Seg(100, 0),
                          Seg(MaxTweetLen, 0)>>
    /\ LET chain == Chain(trace) IN
        /\ Len(chain) = 2
        /\ chain[1].text = 100 /\ IsPost(chain[1])
        /\ chain[2].text = MaxTweetLen /\ IsPost(chain[2])
        /\ chain[2].reply_to = chain[1].id

\* ----------------------------------------------- properties: the topic loop
\* The number of topics the analysis of message m has.
TopicCount(tr, m) ==
    IF Classified(tr, m) = {} THEN 0
    ELSE Len(tr[Max(Classified(tr, m))].segs)

\* Generation g left no valid tweet (the generator raised, answered nothing,
\* or nothing it answered passed the validation).
NoSurvivor(tr, g) == valid_tweets(tr[g].segs) = <<>>

\* The create_tweet calls of post_thread for topic t of message m.
CallsFor(tr, m, t) == {k \in PublishedFor(tr, m) : tr[k].topic = t}

\* The loop is at topic t of message m, about to generate for it.
AtTopic(m, t) == ipc = "topic" /\ messages[mi] = m /\ ti = t

\* C18: a topic for which no tweet survives gets no create_tweet call and no
\* second generation, and the loop goes straight on: to the next topic of
\* the message, or after the last topic to recording the message.
C18_EmptyTopicAbandoned ==
    \A g \in Generations(trace) :
        NoSurvivor(trace, g) =>
            LET m == trace[g].item
                t == trace[g].topic
            IN  /\ CallsFor(trace, m, t) = {}
                /\ \A h \in Generations(trace) :
                    (trace[h].item = m /\ trace[h].topic = t) => h = g
                /\ g = Len(trace) =>
                    IF t < TopicCount(trace, m)
                    THEN AtTopic(m, t + 1)
                    ELSE AlreadyProcessed(m)

\* C18 witness: the generator answered for the first topic of a message but
\* no segment was valid, and the second topic was generated and posted.
C18_Witness ==
    \E g, h \in Generations(trace) :
        /\ NoSurvivor(trace, g)
        /\ trace[g].segs # <<>>
        /\ trace[g].topic = 1
        /\ trace[h].item = trace[g].item
        /\ trace[h].topic = 2
        /\ \E k \in CallsFor(trace, trace[h].item, 2) : IsPost(trace[k])

\* How many topics of message m the loop has started on.
TopicsStarted(m) ==
    IF Handling(m) THEN (IF ipc = "topic" THEN ti - 1 ELSE ti)
    ELSE IF AlreadyProcessed(m) THEN TopicCount(trace, m)
    ELSE 0

\* Topic t of message m is over: the loop stands after its post_thread call.
TopicOver(m, t) ==
    t < TopicsStarted(m) \/ ~Handling(m) \/ ipc = "topic_sleep"

\* A create_tweet call for topic t of message m raised.
FailedFor(tr, m, t) ==
    {k \in CallsFor(tr, m, t) : tr[k].res \notin {"ok", "pending"}}

\* C19: whatever post_thread met, no topic of a message is left out: every
\* topic up to the one the loop stands at (every topic of the analysis, once
\* the message is recorded) was generated, in the order of the analysis and
\* after everything done for the topic before it, and when tweets survived
\* post_thread was run on them.
C19_EveryTopicHandled ==
    \A m \in Msgs :
        \A t \in 1..TopicsStarted(m) :
            \E g \in Generated(trace, m) :
                /\ trace[g].topic = t
                /\ \A k \in Idx(trace) :
                    (trace[k].item = m /\ trace[k].topic \in 1..(t - 1)) =>
                        k < g
                /\ (TopicOver(m, t) /\ ~NoSurvivor(trace, g)) =>
                    CallsFor(trace, m, t) # {}

\* C19 witness: a create_tweet call for the first topic raised, and the
\* second topic was generated and posted.
C19_Witness ==
    \E m \in Msgs :
        /\ FailedFor(trace, m, 1) # {}
        /\ \E g \in Generated(trace, m) : trace[g].topic = 2
        /\ \E k \in CallsFor(trace, m, 2) : IsPost(trace[k])

\* ------------------------------------------- properties: the polling loop
\* The user interrupted monitor_inbox.
Interrupted(tr) == \E k \in Idx(tr) : tr[k].kind = "interrupt"

\* C20: monitor_inbox leaves its loop only by the interrupt; after an error
\* of a poll (list, get or modify raised) the 10 s sleep ends in a new poll,
\* and whatever classification, generation and posting do, the loop comes to
\* a new poll again and again until it is interrupted.
C20_LoopNeverEnds ==
    /\ [](ipc \in InLoop \/ (ipc = "exited" /\ Interrupted(trace)))
    /\ (ipc = "backoff") ~> (ipc = "poll" \/ Interrupted(trace))
    /\ []<>(ipc = "poll" \/ Interrupted(trace))

\* C20 witness: after a message whose thread had a create_tweet call that
\* raised was recorded, get or modify raised for another message, and the
\* loop, not interrupted, is in the 10 s sleep of its handler.
C20_Witness ==
    /\ ipc = "backoff"
    /\ processed_messages # <<>>
    /\ unread \ {processed_messages[1]} # {}
    /\ Faults(trace) > 0
    /\ ~Interrupted(trace)

\* ------------------------------------------- properties: the mention loop
\* C21, as the specification states it: without an interrupt (there is none
\* in these runs) monitor_followed_tweets never ends, neither by a start-up
\* login that failed nor by get_followers_ids raising.
C21_MentionMonitorNeverEnds == fpc # "exited"

\* ------------------------------------- properties: failures of one message
\* The list of a poll names no message twice.
NoRepeats(list) ==
    \A a, b \in 1..Len(list) : a # b => list[a] # list[b]

\* The step in which process_message returned {} for the new message the
\* loop is at: the loop leaves the message without a classification, and
\* not through its exception handler or an interrupt.
ProcessYieldsNothing ==
    /\ ipc = "msg"
    /\ ~AlreadyProcessed(messages[mi])
    /\ IsNew(messages[mi])
    /\ ipc' \notin {"backoff", "exited"}
    /\ Classified(trace', messages[mi]) = Classified(trace, messages[mi])
    /\ <<ipc, mi>> # <<ipc', mi'>>

C22_Step ==
    ProcessYieldsNothing =>
        /\ trace' = trace
        /\ processed_messages' = processed_messages
        /\ unread' = unread
        /\ IF mi < Len(messages)
           THEN ipc' = "msg" /\ messages' = messages /\ mi' = mi + 1
           ELSE ipc' = "sleep"

\* C22: when process_message yields no record for a new message, that step
\* calls no service (no classification, no generation, no create_tweet),
\* leaves processed_messages and the UNREAD label as they are, and goes on
\* to the next message of the poll's list (which names each id once, so the
\* message does not come up again in this poll) or ends the poll.
C22_EmptyRecordSkipped ==
    /\ [](NoRepeats(messages) /\ (ipc = "msg" => mi \in 1..Len(messages)))
    /\ [][C22_Step]_vars

\* C22 witness: a new message listed before another is still unread, not
\* recorded and never classified, while the one listed after it has been
\* classified and recorded: process_message yielded nothing for the first
\* and the poll went on.
C22_Witness ==
    \E a, b \in Msgs :
        /\ a > b
        /\ IsNew(a) /\ a \in unread
        /\ ~AlreadyProcessed(a)
        /\ Classified(trace, a) = {}
        /\ Classified(trace, b) # {}
        /\ AlreadyProcessed(b)

\* ---------------------------------------- properties: the classification
\* The topics of an analysis are what the specification's schema asks for:
\* a sequence of non-empty strings.
TopicsMeetSchema(tl) == \A k \in 1..Len(tl) : tl[k] # ""

\* C23, as the specification states it: a message whose analysis does not
\* meet the schema gets no generation (and with that no create_tweet call).
C23_NoThreadForMalformed ==
    \A m \in Msgs :
        \A c \in Classified(trace, m) :
            ~TopicsMeetSchema(trace[c].segs) => Generated(trace, m) = {}

\* What does hold: an analysis without fenced block, that json.loads
\* rejects, of another type or without the topics key gives no topics, the
\* message gets no generation and no create_tweet call, and it is recorded.
C23_NoTopicsNoThread ==
    \A m \in Msgs :
        \A c \in Classified(trace, m) :
            trace[c].segs = <<>> =>
                /\ Generated(trace, m) = {}
                /\ PublishedFor(trace, m) = {}
                /\ AlreadyProcessed(m)
                /\ Cardinality(Classified(trace, m)) = 1

\* A later poll lists the message with the unusable analysis again and
\* passes it over.
C23_Witness ==
    /\ ipc = "msg"
    /\ AlreadyProcessed(messages[mi])
    /\ \E c \in Classified(trace, messages[mi]) : trace[c].segs = <<>>

\* The generate events and the events of post_thread (sleeps, create_tweet
\* calls) made for message m.
TopicEvents(tr, m) ==
    {k \in Idx(tr) : tr[k].item = m /\ tr[k].topic > 0}

\* C24: the loop goes through the topics in the order of the analysis, one
\* at a time: while a message is handled the list it iterates is the list
\* the classification gave, and everything done for an earlier topic
\* (generation, sleeps, create_tweet calls) comes before everything done for
\* a later one, with no call of the earlier topic still in flight.
C24_TopicsInOrder ==
    \A m \in Msgs :
        /\ Handling(m) => topics = trace[Max(Classified(trace, m))].segs
        /\ \A j, k \in TopicEvents(trace, m) :
            trace[j].topic < trace[k].topic =>
                /\ j < k
                /\ trace[j].res # "pending"

\* C24 witness: tweets were posted for the first and for the second topic
\* of a message.
C24_Witness ==
    \E m \in Msgs :
        /\ \E k \in CallsFor(trace, m, 1) : IsPost(trace[k])
        /\ \E k \in CallsFor(trace, m, 2) : IsPost(trace[k])

\* C25, as the specification states it: an analysis that
\* create_newsletter_thread takes as a newsletter (it gets as far as the
\* loop over the topics) has at least one topic.
C25_NewsletterHasTopics ==
    \A k \in Idx(trace) :
        (trace[k].kind = "classify" /\ trace[k].res = "newsletter") =>
            trace[k].segs # <<>>

\* ------------------------------------------------ properties: the body
\* The leaves of a part tree in traversal order (depth first, left to
\* right), and the text of a sequence of leaves.
RECURSIVE LeavesOf(_)
LeavesOf(parts) ==
    IF parts = <<>> THEN <<>>
    ELSE (IF Head(parts).has_parts THEN LeavesOf(Head(parts).parts)
          ELSE <<Head(parts)>>) \o LeavesOf(Tail(parts))

IsTextLeaf(part) == part.mimeType = "text/plain" /\ part.has_data

RECURSIVE Concat(_)
Concat(leaves) ==
    IF leaves = <<>> THEN <<>>
    ELSE b64decode(Head(leaves).data) \o Concat(Tail(leaves))

\* The text the body of a payload is to be.
BodyText(pl) ==
    IF pl.has_parts THEN Concat(SelectSeq(LeavesOf(pl.parts), IsTextLeaf))
    ELSE b64decode(pl.data)

\* C26: the content given to the classifier is the decoded data of the
\* text/plain leaves of the payload's part tree, concatenated in traversal
\* order, with every other leaf left out; a payload without parts gives its
\* own decoded body.
C26_BodyIsTextLeaves ==
    \A k \in Idx(trace) :
        trace[k].kind = "classify" =>
            trace[k].content = BodyText(payload[trace[k].item])

\* C26 witness: text leaves A and B at different depths with a non-text
\* leaf between them gave the content AB.
C26_Witness ==
    \E k \in Idx(trace) :
        /\ trace[k].kind = "classify"
        /\ trace[k].content = <<"A", "B">>
        /\ LET pl == payload[trace[k].item]
           IN  /\ pl.has_parts
               /\ Len(pl.parts) = 2
               /\ pl.parts[1].has_parts
               /\ Len(pl.parts[1].parts) = 2
               /\ pl.parts[1].parts[2].mimeType = "text/html"
               /\ ~pl.parts[2].has_parts

\* ------------------------------------------------ properties: end to end
\* Message m was classified as a newsletter with the single topic T1, two
\* tweets of the generator's response were valid, and no create_tweet call
\* made for it raised.
OneTopicTwoTweets(tr, m) ==
    /\ \E c \in Classified(tr, m) : tr[c].segs = <<"T1">>
    /\ \E g \in Generated(tr, m) : Len(valid_tweets(tr[g].segs)) = 2
    /\ FailedFor(tr, m, 1) = {}

\* The create_tweet calls for message m that returned, in the order made.
PostsFor(tr, m) ==
    SelectSeq(tr, LAMBDA e : IsPost(e) /\ e.by = "thread" /\ e.item = m)

\* C27: for a new message with the single topic T1, two valid tweets and no
\* error of create_tweet, at most two create_tweet calls are made, and once
\* the loop is through with the message exactly two posts exist, the first
\* top-level and the second a reply to the first, the id is in
\* processed_messages, and the message still carries UNREAD (no modify call
\* was made for it).
C27_EndToEnd ==
    \A m \in Msgs :
        OneTopicTwoTweets(trace, m) =>
            /\ Cardinality(PublishedFor(trace, m)) <= 2
            /\ ~Handling(m) =>
                LET posts == PostsFor(trace, m)
                IN  /\ Len(posts) = 2
                    /\ Cardinality(PublishedFor(trace, m)) = 2
                    /\ posts[1].reply_to = None
                    /\ posts[2].reply_to = posts[1].id
                    /\ posts[1].id # posts[2].id
                    /\ AlreadyProcessed(m)
                    /\ m \in unread
                    /\ \A k \in Idx(trace) :
                        trace[k].kind = "mark_read" => trace[k].item # m

\* C27 witness: such a message is through, and a later poll lists it again.
C27_Witness ==
    /\ ipc = "msg"
    /\ OneTopicTwoTweets(trace, messages[mi])
    /\ AlreadyProcessed(messages[mi])
    /\ Len(PostsFor(trace, messages[mi])) = 2

\* ------------------------------------------ properties: follower tweets
\* The create_tweet calls the mention monitor made in reply to tweet id.
RepliesTo(tr, id) ==
    {k \in Idx(tr) : /\ IsCall(tr[k])
                     /\ tr[k].by = "mentions"
                     /\ tr[k].reply_to = id}

\* The mention monitor is at a tweet (deciding on it, or awaiting its reply
\* call or the sleep after it).
AtTweet == fpc \in {"tweet", "reply_delay", "reply", "reply_pause"}

C28_State ==
    \A id \in {Mention.id, Chatter.id} :
        /\ Cardinality(RepliesTo(trace, id)) <= 1
        /\ \A k \in RepliesTo(trace, id) :
            trace[k].res # "pending" =>
                \/ id \in processed_tweet_ids
                \/ fpc = "reply_pause" /\ user_tweets[ft].id = id

C28_Step ==
    /\ processed_tweet_ids \subseteq processed_tweet_ids'
    /\ (fpc = "tweet" /\ fpc' = "reply_delay") =>
        user_tweets[ft].id \notin processed_tweet_ids
    /\ (AtTweet /\ <<fpc, ft>> # <<fpc', ft'>>
               /\ fpc' \notin {"reply_delay", "reply", "reply_pause"}) =>
        user_tweets[ft].id \in processed_tweet_ids'

\* C28: a follower tweet gets at most one create_tweet call in reply, over
\* all passes; a reply is only started for an id not in processed_tweet_ids;
\* processed_tweet_ids never loses an id; and whenever the loop leaves a
\* tweet (no mention, no response generated, the reply raised, or the reply
\* was posted and the sleep after it is over) its id is in the set.
C28_TweetHandledOnce == []C28_State /\ [][C28_Step]_vars

\* C28 witness: in the second pass the tweet with the mention, whose reply
\* raised in the first pass, comes up again as processed, as does the tweet
\* without mention.
C28_Witness ==
    /\ passes = 2
    /\ fpc = "tweet"
    /\ user_tweets[ft] = Mention
    /\ \E k \in RepliesTo(trace, Mention.id) : trace[k].res = "other"
    /\ {Mention.id, Chatter.id} \subseteq processed_tweet_ids

\* ------------------------------------- properties: the search of a topic
\* The searches that raised.
FailedSearches(tr) ==
    {k \in Idx(tr) : tr[k].kind = "search" /\ tr[k].res = "error"}

\* The loop of process_and_create_threads is through with topic t.
EtTopicOver(t) == ipc = "idle" \/ ti > t

\* C29: when the search of a topic raises, search_topic returns the empty
\* list and the topic goes on: the generator is called next, for the same
\* topic, with the placeholder as additional information, and unless the
\* generator itself raises post_thread is run on the tweets (its first
\* create_tweet call sends the first tweet; once the topic is over that
\* call has been made).
C29_SearchFailureHarmless ==
    \A k \in FailedSearches(trace) :
        /\ trace[k].segs = <<>>
        /\ k < Len(trace)
        /\ LET g == trace[k + 1]
               calls == CallsFor(trace, trace[k].item, trace[k].topic)
           IN  /\ g.kind = "generate"
               /\ g.topic = trace[k].topic
               /\ g.content = Placeholder
               /\ (g.res = "ok" /\ EtTopicOver(g.topic)) =>
                    \E c \in calls :
                        /\ trace[c].seg = 0
                        /\ trace[c].text.suffix =
                            (IF Len(thread_tweets(g.segs)) = 1
                             THEN "end" ELSE "none")
               /\ g.res = "error" => calls = {}

\* C29 witness: the search of the first topic raised, its thread of two
\* tweets was posted, and the second topic is being handled.
C29_Witness ==
    /\ ti = 2
    /\ \E k \in FailedSearches(trace) :
        /\ trace[k].topic = 1
        /\ Cardinality({c \in CallsFor(trace, trace[k].item, 1) :
                            IsPost(trace[c])}) = 2

\* ------------------------------------------------ properties: interrupt
\* C30, as the specification states it: when the interrupt has ended the
\* inbox loop, no create_tweet call of post_thread was cut off in flight
\* (the call the loop was awaiting was left to return first).
C30_InFlightCallCompletes ==
    ipc = "exited" => Pending(trace, "thread") = {}

\* ------------------------------------------- properties: pacing of a thread
\* The event right before trace index k is the jittered sleep taken for the
\* same tweet of the same thread.
DelayedCall(tr, k) ==
    /\ k > 1
    /\ tr[k - 1].kind = "delay"
    /\ tr[k - 1].by = "thread"
    /\ tr[k - 1].th = tr[k].th
    /\ tr[k - 1].seg = tr[k].seg

\* C31, as the specification states it: every create_tweet call of
\* post_thread, the top-level retry of chain repair included, comes right
\* after a jittered sleep of its own.
C31_DelayBeforeEveryCall ==
    \A k \in AllThreadCalls(trace) : DelayedCall(trace, k)

\* What the code does keep: the first call for each tweet is delayed, and
\* the only call without a sleep of its own is the repair retry.
C31_OnlyRetryUndelayed ==
    \A k \in AllThreadCalls(trace) :
        DelayedCall(trace, k) \/ IsRepairRetry(trace, k)

\* The longer breaks of thread th, as trace indices, and the number of its
\* posts between trace indices a and b.
Cooldowns(tr, th) ==
    {k \in 1..Len(tr) : tr[k].kind = "cooldown" /\ tr[k].th = th}
PostsBetween(tr, th, a, b) ==
    Cardinality({k \in ThreadCalls(tr, th) : a < k /\ k < b /\ IsPost(tr[k])})

\* C32, as the specification states it: a longer break is taken only right
\* after a successful publish, and from one break of a thread to its next
\* exactly CooldownEvery tweets were published, however many were skipped.
C32_CadenceCountsPublished ==
    \A c \in 1..Len(trace) :
        trace[c].kind = "cooldown" =>
            /\ c > 1
            /\ IsPost(trace[c - 1])
            /\ trace[c - 1].th = trace[c].th
            /\ \A b \in Cooldowns(trace, trace[c].th) :
                (b < c /\ \A m \in Cooldowns(trace, trace[c].th) :
                                ~(b < m /\ m < c))
                    => PostsBetween(trace, trace[c].th, b, c) = CooldownEvery

\* What the code does keep: a longer break is taken only right after a
\* successful publish, of a tweet whose index is a multiple of 3.
C32_CadenceCountsIndex ==
    \A c \in 1..Len(trace) :
        trace[c].kind = "cooldown" =>
            /\ c > 1
            /\ IsPost(trace[c - 1])
            /\ trace[c - 1].th = trace[c].th
            /\ trace[c - 1].seg > 0
            /\ trace[c - 1].seg % CooldownEvery = 0

\* ------------------------------------------- properties: the inbox gate
\* Event e is a generate call or a create_tweet call of post_thread.
ForAnItem(e) == e.kind = "generate" \/ IsThreadCall(e)

\* C33: a generate call or a publish call is made for an inbox message only
\* after the message, which is new, was fetched and classified NEWSLETTER
\* (a message classified otherwise gets no generate and no publish call),
\* and at the time of the call its id is not in processed_messages.
C33_State ==
    \A k \in Idx(trace) :
        ForAnItem(trace[k]) =>
            LET m == trace[k].item
            IN  /\ m \in Msgs
                /\ IsNew(m)
                /\ \E c \in Classified(trace, m) :
                    /\ c < k
                    /\ trace[c].res = "newsletter"
                    /\ trace[c].content # <<>>
                /\ \A c \in Classified(trace, m) :
                    trace[c].res = "newsletter"
C33_Step ==
    \A k \in Idx(trace') :
        (k > Len(trace) /\ ForAnItem(trace'[k])) =>
            /\ Handling(trace'[k].item)
            /\ ~AlreadyProcessed(trace'[k].item)
C33_OnlyNewNewsletters == []C33_State /\ [][C33_Step]_vars

\* The message was classified NOT_NEWSLETTER and recorded without a
\* generate call, and a later poll lists it again.
C33_Witness ==
    /\ ipc = "msg"
    /\ AlreadyProcessed(messages[mi])
    /\ \E c \in Classified(trace, messages[mi]) :
        trace[c].res = "not_newsletter"
    /\ \A k \in Idx(trace) : ~ForAnItem(trace[k])

\* ------------------------------------------- properties: the shared client
\* The posts of call th of post_thread issued before trace index k.
OwnPostsBefore(tr, th, k) ==
    {n \in ThreadCalls(tr, th) : n < k /\ IsPost(tr[n])}

\* C34: with the threads of the inbox loop and the replies of the mention
\* loop interleaved on one client, a reply of post_thread names only the id
\* of a post made earlier by the same call of post_thread, and so does
\* previous_tweet_id while the call runs.
C34_ChainIsLocal ==
    /\ \A k \in AllThreadCalls(trace) :
        trace[k].reply_to # None =>
            \E n \in OwnPostsBefore(trace, trace[k].th, k) :
                trace[n].id = trace[k].reply_to
    /\ previous_tweet_id # None =>
        \E n \in ThreadCalls(trace, thread_id) :
            IsPost(trace[n]) /\ trace[n].id = previous_tweet_id

\* The mention loop posted a reply between the head of the second thread
\* and the reply to that head.
C34_Witness ==
    \E k \in AllThreadCalls(trace) :
        /\ trace[k].th = 2
        /\ IsPost(trace[k])
        /\ trace[k].reply_to # None
        /\ \E m \in Idx(trace) :
            /\ IsPost(trace[m])
            /\ trace[m].by = "mentions"
            /\ trace[k].reply_to < trace[m].id
            /\ trace[m].id < trace[k].id

\* ------------------------------------------- properties: end of a thread
\* The create_tweet calls of thread th for the tweet at index seg.
CallsForSeg(tr, th, seg) == {k \in ThreadCalls(tr, th) : tr[k].seg = seg}

\* How far post_thread is from its return: the tweets left, and within one
\* tweet the sleep, the call, the retry and the longer break in this order.
StepsLeft ==
    CASE ptpc = "entry" -> 4 * Len(tweets) + 5
      [] ptpc = "delay" -> 4 * (Len(tweets) - i) + 4
      [] ptpc \in {"reply", "top"} -> 4 * (Len(tweets) - i) + 3
      [] ptpc = "retry" -> 4 * (Len(tweets) - i) + 2
      [] ptpc = "cooldown" -> 4 * (Len(tweets) - i) + 1
      [] OTHER -> 0

\* C35: post_thread over n tweets makes at most two create_tweet calls for
\* a tweet (the second one only as the retry of chain repair), at most 2n
\* in all, never calls for an earlier tweet again, and always returns:
\* every step it takes brings it closer to its return.
C35_State ==
    /\ \A k \in AllThreadCalls(trace) :
        /\ trace[k].seg \in 0..(Len(tweets) - 1)
        /\ Cardinality(CallsForSeg(trace, trace[k].th, trace[k].seg)) <= 2
        /\ \A n \in ThreadCalls(trace, trace[k].th) :
            n < k => trace[n].seg <= trace[k].seg
        /\ \A n \in CallsForSeg(trace, trace[k].th, trace[k].seg) :
            n < k => IsRepairRetry(trace, k)
    /\ Cardinality(ThreadCalls(trace, thread_id)) <= 2 * Len(tweets)
C35_Step == StepsLeft' < StepsLeft /\ StepsLeft' >= 0
C35_ThreadTerminates == []C35_State /\ [][C35_Step]_vars

\* A thread of three tweets returned after five calls: the replies of the
\* second and of the third tweet were both retried.
C35_Witness ==
    /\ ptpc = "returned"
    /\ Len(tweets) = 3
    /\ Cardinality(ThreadCalls(trace, thread_id)) = 5

\* ------------------------------------------- properties: ledger and labels
\* The ids recorded in processed_messages.
Ledger == {processed_messages[k] : k \in 1..Len(processed_messages)}

\* C36: no id is both recorded in processed_messages and marked read by the
\* loop, and every recorded id is that of a message that is new and whose
\* record process_message returned (it was classified on its content).
C36_LedgerApartFromRead ==
    /\ Ledger \cap ItemsOf(trace, "mark_read") = {}
    /\ \A m \in Ledger :
        /\ IsNew(m)
        /\ \E c \in Classified(trace, m) : trace[c].content # <<>>

\* One message is recorded and left unread, another one was marked read.
C36_Witness ==
    /\ Ledger # {}
    /\ ItemsOf(trace, "mark_read") # {}
    /\ Ledger \subseteq unread
    /\ ItemsOf(trace, "mark_read") \cap unread = {}

\* ------------------------------------------- properties: a failing message
\* C37, as the specification states it: with a message whose mark-read call
\* fails in every poll, every new message (it stays unread and is listed by
\* every poll) is eventually recorded in processed_messages.
C37_NoStarvation ==
    \A m \in Msgs : IsNew(m) ~> AlreadyProcessed(m)

\* What the code does keep: a new message is eventually recorded unless the
\* polls list a message that fails before it.
FailsBefore(m) == \E n \in Msgs : n > m /\ ~IsNew(n)
C37_ServedUnlessBehind ==
    \A m \in Msgs : (IsNew(m) /\ ~FailsBefore(m)) ~> AlreadyProcessed(m)

\* A poll ended at the failing message with a new message listed after it
\* that was never handled.
C37_Witness ==
    /\ ipc = "backoff"
    /\ \E m \in Msgs :
        /\ IsNew(m)
        /\ FailsBefore(m)
        /\ ~AlreadyProcessed(m)
        /\ Classified(trace, m) = {}

\* ------------------------------------------- properties: twikit_hello.py
\* The replies posted to the tweet id.
PostedReplies(tr, id) == {k \in RepliesTo(tr, id) : IsPost(tr[k])}

\* C38, as stated: run_mention_monitor replies to a mention at most once in
\* a run, also when later polls return the mention again.
C38_MentionRepliedOnce ==
    \A m \in {Mention, Mention2} :
        Cardinality(PostedReplies(trace, m.id)) <= 1

\* What the code does keep: within one poll a mention is replied to once.
C38_OncePerPoll ==
    \A m \in {Mention, Mention2} :
        Cardinality(PostedReplies(trace, m.id)) <= passes + 1
====
